---- MODULE Spec2Model ----
(***************************************************************************)
(* CuWatch server: the ingestion bridge (services/bridge/bridge.py) and    *)
(* the timed-session controller (services/web/app.py).                     *)
(*                                                                         *)
(* The bridge is one MQTT callback, on_message, that runs one store        *)
(* transaction per message.  The session controller is a dictionary        *)
(* guarded by one lock, mutated by request handlers and by two kinds of    *)
(* background threads (await-first-sample, stop-after-delay).              *)
(*                                                                         *)
(* Instants are integers (milliseconds on a scaled axis); a missing        *)
(* instant (Python None) is NoneTs.                                        *)
(***************************************************************************)
EXTENDS Integers, Sequences, FiniteSets, TLC

VARIABLES
    samples,        \* table samples: sequence of rows, id = position
    devices,        \* table devices: device id -> row or NoRow
    runs,           \* table runs: sequence of rows
    last_controls,  \* bridge.last_controls: device id -> cached payload
    bridge_raised,  \* did the last on_message call raise to its caller
    last_msg,       \* did the last payload decode: "json", "badjson"; "none" at first
    sessions,       \* app._active_sessions: device id -> entry or NoSession
    lock,           \* app._sessions_lock: "free" or the request holding it
    start_req,      \* locals of the start_session request inside the lock
    waiters,        \* live _await_first_sample_then_start threads
    timers,         \* live _stop_session_after_delay threads
    stops,          \* stop_session requests between unlock and publish
    published,      \* commands handed to publish_control, in order
    clock_ns,       \* last value returned by time.time_ns()
    http_code       \* status of the last answered session request, 0 at first

bridgeVars == <<samples, devices, runs, last_controls, bridge_raised, last_msg>>
webVars == <<sessions, lock, start_req, waiters, timers, stops, published,
             clock_ns, http_code>>
vars == <<samples, devices, runs, last_controls, bridge_raised, last_msg,
          sessions, lock, start_req, waiters, timers, stops, published,
          clock_ns, http_code>>

(***************************************************************************)
(* Bounds of the model.                                                    *)
(***************************************************************************)
MaxSamples == 2     \* rows the samples table may hold
MaxStarts == 2      \* start_session requests that pass validation
MaxStream == 60     \* messages of one uninterrupted telemetry stream
MaxControls == 2    \* control requests that are published

(***************************************************************************)
(* JSON values.  Each kind has its own field name, so values of different  *)
(* kinds are comparable.                                                   *)
(***************************************************************************)
Absent == [absent |-> TRUE]          \* key not in the object
Null == [null |-> TRUE]              \* JSON null / Python None
JInt(n) == [int |-> n]
JBool(b) == [bool |-> b]
JStr(s) == [str |-> s]               \* a string that is no number, no date
JDigits(n) == [digits |-> n]         \* the decimal digit string of n >= 0
JIso(t) == [iso |-> t]               \* ISO-8601 text of instant t
NotObject == [notobject |-> TRUE]    \* valid JSON that is no object
JPairs(c) == [pairs |-> c]           \* the array of the [key, value] pairs of c
JFloat(k) == [tenths |-> k]          \* the number k/10, written with a fraction
SuperDigits == [superdigits |-> TRUE] \* a string of digits that are no decimal digits
BadJSON == [badjson |-> TRUE]        \* bytes json.loads rejects

IsInt(v) == DOMAIN v = {"int"}
IsBool(v) == DOMAIN v = {"bool"}
IsStr(v) == DOMAIN v = {"str"}
IsDigits(v) == DOMAIN v = {"digits"}
IsIso(v) == DOMAIN v = {"iso"}
IsPairs(v) == DOMAIN v = {"pairs"}
IsFloat(v) == DOMAIN v = {"tenths"}

NoneTs == 0 - 1

\* dict.get(k): a missing key reads as None
Get(p, k) == IF p[k] = Absent THEN Null ELSE p[k]
\* k in dict
Has(p, k) == p[k] # Absent

\* Python truth value of a JSON value
Truthy(v) ==
    CASE v = Null -> FALSE
      [] v = Absent -> FALSE
      [] IsInt(v) -> v.int # 0
      [] IsBool(v) -> v.bool
      [] IsStr(v) -> v.str # ""
      [] IsFloat(v) -> v.tenths # 0
      [] OTHER -> TRUE

\* a or b
PyOr(a, b) == IF Truthy(a) THEN a ELSE b

\* str(v) for the values a run id takes
Decimal == [n \in 0..9 |-> <<"0", "1", "2", "3", "4", "5", "6", "7", "8", "9">>[n + 1]]
PyStr(v) ==
    CASE IsInt(v) -> JStr(Decimal[v.int])
      [] IsDigits(v) -> JStr(Decimal[v.digits])
      [] IsBool(v) -> JStr(IF v.bool THEN "True" ELSE "False")
      [] OTHER -> v

(***************************************************************************)
(* bridge.parse_ts and the validity floor.  The time axis is scaled by     *)
(* 10^8 so that the constants fit: 1e12 becomes 10000, the floor           *)
(* 2000-01-01 (946684800 s) becomes 9467 ms, and the last second           *)
(* datetime.fromtimestamp accepts (year 9999) becomes 2534 s.              *)
(***************************************************************************)
MS_CUTOFF == 10000
MIN_VALID == 9467
MAX_EPOCH_S == 2534
MAX_FLOAT == 100000000               \* the largest integer float() converts

\* datetime.fromtimestamp(x seconds): fails outside the datetime range.
\* xms is x in milliseconds.
FromTimestamp(xms) ==
    IF xms >= 0 /\ xms <= MAX_EPOCH_S * 1000 THEN xms ELSE NoneTs

\* The numeric branch: x = float(v); if x > 1e12: x = x / 1000.0
EpochToTs(n) ==
    IF n > MS_CUTOFF THEN FromTimestamp(n) ELSE FromTimestamp(n * 1000)

\* the numeric branch on k/10: seconds with a fraction, or milliseconds
EpochTenthsToTs(k) ==
    IF k > MS_CUTOFF * 10 THEN FromTimestamp(k \div 10) ELSE FromTimestamp(k * 100)

\* what parse_ts returns when it returns
parse_ts(v) ==
    CASE v = Null -> NoneTs
      [] v = Absent -> NoneTs
      [] IsInt(v) -> EpochToTs(v.int)
      [] IsBool(v) -> EpochToTs(IF v.bool THEN 1 ELSE 0)
      [] IsDigits(v) -> EpochToTs(v.digits)
      [] IsFloat(v) -> EpochTenthsToTs(v.tenths)
      [] IsIso(v) -> v.iso
      [] OTHER -> NoneTs

\* line 81, x = float(v), stands before the try of line 84: the exception
\* that leaves parse_ts, "none" when it returns.  float() of an integer
\* beyond the float range raises OverflowError; str.isdigit() is true of
\* digits such as a superscript two, on which float() raises ValueError
parse_ts_error(v) ==
    CASE IsInt(v) /\ v.int > MAX_FLOAT -> "OverflowError"
      [] v = SuperDigits -> "ValueError"
      [] OTHER -> "none"

\* no validity floor
Floor_Off(t) == t

\* if ts is not None and ts < min_valid: ts = None
Floor(t) == IF t # NoneTs /\ t < MIN_VALID THEN NoneTs ELSE t

\* datetime.isoformat() and datetime.fromisoformat(): text of an instant
\* and back
IsoFormat(t) == JIso(t)
FromIso(v) == IF IsIso(v) THEN v.iso ELSE NoneTs

\* a or b on optional datetimes (every datetime is truthy)
TsOr(a, b) == IF a # NoneTs THEN a ELSE b

(***************************************************************************)
(* bridge.to_int / bridge.to_bool.  Each is a pair: does the coercion      *)
(* succeed, and its value when it does.                                    *)
(***************************************************************************)
\* int(x) of a number with a fraction: the fraction is cut off
Trunc(k) == IF k >= 0 THEN k \div 10 ELSE 0 - ((0 - k) \div 10)

to_int_ok(v) == IsInt(v) \/ IsBool(v) \/ IsDigits(v) \/ IsFloat(v)
to_int(v) ==
    CASE IsInt(v) -> v.int
      [] IsBool(v) -> IF v.bool THEN 1 ELSE 0
      [] IsDigits(v) -> v.digits
      [] IsFloat(v) -> Trunc(v.tenths)
      [] OTHER -> 0

TrueWords == {"true", "t", "yes", "y"}
FalseWords == {"false", "f", "no", "n"}
to_bool_ok(v) ==
    \/ IsBool(v)
    \/ IsInt(v)
    \/ IsFloat(v)
    \/ IsStr(v) /\ v.str \in TrueWords \cup FalseWords
    \/ IsDigits(v) /\ v.digits \in {0, 1}
to_bool(v) ==
    CASE IsBool(v) -> v.bool
      [] IsInt(v) -> v.int # 0
      [] IsFloat(v) -> Trunc(v.tenths) # 0
      [] IsStr(v) -> v.str \in TrueWords
      [] IsDigits(v) -> v.digits = 1
      [] OTHER -> FALSE

(***************************************************************************)
(* Payloads, stored documents and rows.                                    *)
(***************************************************************************)
PayloadKeys == {"timestamp", "ts", "end_time", "run_base_ts", "run_start_ts",
                "run_start", "run_id", "run", "baseline", "is_leader",
                "reset_threshold", "threshold", "dt", "device_number",
                "muon_count", "adc_v", "temp_adc_v", "wait_cnt", "coincidence"}
EmptyPayload == [k \in PayloadKeys |-> Absent]

\* the payload of a control message: the keys the bridge reads back
ControlKeys == {"baseline", "is_leader", "reset_threshold", "threshold"}
EmptyControl == [k \in ControlKeys |-> Absent]
NoCtl == [noctl |-> TRUE]            \* device id not in last_controls

\* Device.meta document: {"current_run": {...}, "metrics": {...}}
RunPointerKeys == {"base_ts", "id", "baseline", "is_leader", "reset_threshold",
                   "threshold"}
EmptyRunPointer == [k \in RunPointerKeys |-> Absent]
EmptyMeta == [current_run |-> Absent, metrics |-> Absent]

\* Run.meta document
RunMetaKeys == {"source", "baseline", "is_leader", "reset_threshold",
                "threshold", "control_snapshot"}
EmptyRunMeta == [k \in RunMetaKeys |-> Absent]

NoRow == [norow |-> TRUE]            \* no row with that primary key

\* d[k] = v when v is not None, else d unchanged
SetIfNotNone(doc, k, v) == IF v = Null THEN doc ELSE [doc EXCEPT ![k] = v]

(***************************************************************************)
(* Rate metrics (bridge.py 243-260), in thousandths of a hertz: round(x,3) *)
(* of a rational x = n/d is the nearest integer to 1000x, ties to even.    *)
(***************************************************************************)
RoundHalfEven(n, d) ==
    LET q == n \div d
        r == n % d
    IN  IF 2 * r < d THEN q
        ELSE IF 2 * r > d THEN q + 1
        ELSE IF q % 2 = 0 THEN q ELSE q + 1

\* the EMA is seeded and never updated
UpdateMetrics_KeepsEma(prev, dt_ms) ==
    LET inst == RoundHalfEven(1000000, dt_ms)
    IN  [inst_rate_hz |-> inst,
         ema_rate_hz |-> IF prev = Absent THEN inst ELSE prev.ema_rate_hz]

\* metrics after a sample with dt_ms > 0; prev is the stored metrics or Absent
UpdateMetrics(prev, dt_ms) ==
    LET inst == RoundHalfEven(1000000, dt_ms)
        ema == IF prev = Absent
               THEN inst
               ELSE RoundHalfEven(1000000 + 4 * prev.ema_rate_hz * dt_ms, 5 * dt_ms)
    IN  [inst_rate_hz |-> inst, ema_rate_hz |-> ema]

(***************************************************************************)
(* The run announcement of a telemetry message (bridge.py 162-232).        *)
(***************************************************************************)
\* lines 163-167
AbsTs(p) ==
    Floor(parse_ts(PyOr(PyOr(Get(p, "timestamp"), Get(p, "ts")), Get(p, "end_time"))))

\* lines 170-177
AnnouncedBase(p) ==
    Floor(TsOr(TsOr(parse_ts(Get(p, "run_base_ts")), parse_ts(Get(p, "run_start_ts"))),
               parse_ts(Get(p, "run_start"))))

\* line 178: payload.get("run_id") or payload.get("run") or None
RunId(p) == PyOr(PyOr(Get(p, "run_id"), Get(p, "run")), Null)

\* line 188: last_controls.get(device_id) or {}
CachedControl(cached) ==
    IF cached = NoCtl \/ cached = EmptyControl THEN EmptyControl ELSE cached

\* ctl.get(k) exists only on a dict
CtlGet(ctl, k) == IF ctl = NotObject THEN Null ELSE Get(ctl, k)

\* lines 190-193: the four enrichment fields, None when neither side has one
Enrich(p, ctl) ==
    [baseline |-> PyOr(Get(p, "baseline"), CtlGet(ctl, "baseline")),
     is_leader |-> IF Has(p, "is_leader") THEN Get(p, "is_leader")
                   ELSE CtlGet(ctl, "is_leader"),
     reset_threshold |-> PyOr(Get(p, "reset_threshold"), CtlGet(ctl, "reset_threshold")),
     threshold |-> PyOr(Get(p, "threshold"), CtlGet(ctl, "threshold"))]

\* lines 190-193 evaluate ctl.get on the cached value whenever the payload's
\* own field does not decide; a cached non-object has no .get
EnrichRaises(p, ctl) ==
    /\ ctl = NotObject
    /\ \/ ~Truthy(Get(p, "baseline"))
       \/ ~Has(p, "is_leader")
       \/ ~Truthy(Get(p, "reset_threshold"))
       \/ ~Truthy(Get(p, "threshold"))

\* bool(x) when x is not None, else None
BoolOrNone(v) == IF v = Null THEN Null ELSE JBool(Truthy(v))

\* current_run is started afresh for every announcement
AnnounceMeta_Fresh(meta, base, run_id, e) ==
    LET cr1 == [EmptyRunPointer EXCEPT !["base_ts"] = IsoFormat(base)]
        cr2 == IF run_id # Null THEN [cr1 EXCEPT !["id"] = PyStr(run_id)] ELSE cr1
        cr3 == SetIfNotNone(cr2, "baseline", e.baseline)
        cr4 == SetIfNotNone(cr3, "is_leader", BoolOrNone(e.is_leader))
        cr5 == SetIfNotNone(cr4, "reset_threshold", e.reset_threshold)
        cr6 == SetIfNotNone(cr5, "threshold", e.threshold)
    IN  [meta EXCEPT !.current_run = cr6]

\* lines 181-203: current_meta after the announcement
AnnounceMeta(meta, base, run_id, e) ==
    LET cr0 == IF meta.current_run = Absent THEN EmptyRunPointer ELSE meta.current_run
        cr1 == [cr0 EXCEPT !["base_ts"] = IsoFormat(base)]
        cr2 == IF run_id # Null THEN [cr1 EXCEPT !["id"] = PyStr(run_id)] ELSE cr1
        cr3 == SetIfNotNone(cr2, "baseline", e.baseline)
        cr4 == SetIfNotNone(cr3, "is_leader", BoolOrNone(e.is_leader))
        cr5 == SetIfNotNone(cr4, "reset_threshold", e.reset_threshold)
        cr6 == SetIfNotNone(cr5, "threshold", e.threshold)
    IN  [meta EXCEPT !.current_run = cr6]

\* lines 207-218: the fresh Run.meta document
RunMetaObj(e, ctl) ==
    LET m0 == [EmptyRunMeta EXCEPT !["source"] = JStr("bridge")]
        m1 == SetIfNotNone(m0, "baseline", e.baseline)
        m2 == SetIfNotNone(m1, "is_leader", BoolOrNone(e.is_leader))
        m3 == SetIfNotNone(m2, "reset_threshold", e.reset_threshold)
        m4 == SetIfNotNone(m3, "threshold", e.threshold)
    IN  IF ctl # EmptyControl THEN [m4 EXCEPT !["control_snapshot"] = ctl] ELSE m4

(***************************************************************************)
(* The runs table: INSERT ... ON CONFLICT (device_id, base_ts) DO UPDATE.  *)
(***************************************************************************)
RunIndex(rs, d, base) ==
    {i \in 1..Len(rs) : rs[i].device_id = d /\ rs[i].base_ts = base}

\* a plain INSERT, without the ON CONFLICT clause
UpsertRun_InsertOnly(rs, d, base, run_key, meta) ==
    Append(rs, [id |-> Len(rs) + 1, device_id |-> d, base_ts |-> base,
                run_key |-> run_key, meta |-> meta])

\* on conflict the stored run_key and meta fields survive where the new
\* values are null or missing
UpsertRun_Coalesce(rs, d, base, run_key, meta) ==
    IF RunIndex(rs, d, base) # {}
    THEN [i \in 1..Len(rs) |->
            IF i \in RunIndex(rs, d, base)
            THEN [rs[i] EXCEPT
                    !.run_key = IF run_key = Null THEN rs[i].run_key ELSE run_key,
                    !.meta = IF rs[i].meta = Null THEN meta
                             ELSE [k \in RunMetaKeys |->
                                     IF meta[k] = Absent THEN rs[i].meta[k]
                                     ELSE meta[k]]]
            ELSE rs[i]]
    ELSE Append(rs, [id |-> Len(rs) + 1, device_id |-> d, base_ts |-> base,
                     run_key |-> run_key, meta |-> meta])

\* lines 223-232: insert (device, base, run_key, meta) or update run_key, meta
UpsertRun(rs, d, base, run_key, meta) ==
    IF RunIndex(rs, d, base) # {}
    THEN [i \in 1..Len(rs) |->
            IF i \in RunIndex(rs, d, base)
            THEN [rs[i] EXCEPT !.run_key = run_key, !.meta = meta]
            ELSE rs[i]]
    ELSE Append(rs, [id |-> Len(rs) + 1, device_id |-> d, base_ts |-> base,
                     run_key |-> run_key, meta |-> meta])

\* the rows of one device
RunIndexOf(d) == {i \in 1..Len(runs) : runs[i].device_id = d}

\* lines 367-375: insert (device, base, meta) or update meta only
UpsertRunMeta(rs, d, base, meta) ==
    IF RunIndex(rs, d, base) # {}
    THEN [i \in 1..Len(rs) |->
            IF i \in RunIndex(rs, d, base) THEN [rs[i] EXCEPT !.meta = meta] ELSE rs[i]]
    ELSE Append(rs, [id |-> Len(rs) + 1, device_id |-> d, base_ts |-> base,
                     run_key |-> Null, meta |-> meta])

(***************************************************************************)
(* on_message, telemetry topic (bridge.py 148-379), as a function of the   *)
(* store, the control cache, the device id d, the payload p (an object)    *)
(* and the receipt time now.                                               *)
(***************************************************************************)
\* lines 152-160: the device's stored meta document, {} when there is none
LoadMeta(devs, d) ==
    IF devs[d] = NoRow THEN EmptyMeta
    ELSE IF devs[d].meta = Null THEN EmptyMeta
    ELSE devs[d].meta

\* lines 181-185, 195-203: current_meta after the announcement step
MetaAfterAnnounce(meta, p, ctl) ==
    IF AnnouncedBase(p) # NoneTs
    THEN AnnounceMeta(meta, AnnouncedBase(p), RunId(p), Enrich(p, ctl))
    ELSE meta

\* lines 205-232: runs after the announcement step
RunsAfterAnnounce(rs, d, p, ctl) ==
    IF AnnouncedBase(p) # NoneTs
    THEN UpsertRun(rs, d, AnnouncedBase(p),
                   IF RunId(p) # Null THEN PyStr(RunId(p)) ELSE Null,
                   RunMetaObj(Enrich(p, ctl), ctl))
    ELSE rs

\* lines 236-241: dt_ms is None unless dt coerces to int
DtOk(p) == to_int_ok(Get(p, "dt"))
DtMs(p) == to_int(Get(p, "dt"))

\* a message without a usable dt counts as one second after the last
MetaAfterMetrics_DefaultDt(meta, p) ==
    [meta EXCEPT !.metrics =
        UpdateMetrics(meta.metrics, IF DtOk(p) /\ DtMs(p) > 0 THEN DtMs(p) ELSE 1000)]

\* lines 245-260
MetaAfterMetrics(meta, p) ==
    IF DtOk(p) /\ DtMs(p) > 0
    THEN [meta EXCEPT !.metrics = UpdateMetrics(meta.metrics, DtMs(p))]
    ELSE meta

\* (current_meta.get("current_run") or {}).get("base_ts") as an instant
CurrentBase(meta) ==
    IF meta.current_run = Absent THEN NoneTs
    ELSE IF ~Truthy(Get(meta.current_run, "base_ts")) THEN NoneTs
    ELSE FromIso(meta.current_run["base_ts"])

\* the sample's timestamp without the synthesis from the run base
ResolveTs_NoSynthesis(meta, p, now) ==
    IF AbsTs(p) = NoneTs THEN now ELSE AbsTs(p)

\* lines 262-273: the sample's timestamp
ResolveTs(meta, p, now) ==
    LET given == AbsTs(p)
        synth == IF given = NoneTs /\ DtOk(p) /\ CurrentBase(meta) # NoneTs
                 THEN CurrentBase(meta) + DtMs(p)
                 ELSE given
    IN  IF synth = NoneTs THEN now ELSE synth

\* lines 276-281
SafeDt(p) == IF Has(p, "dt") /\ to_int_ok(Get(p, "dt")) THEN to_int(Get(p, "dt")) ELSE 0

\* lines 283-296: do the six required fields coerce
RequiredOk(p) ==
    /\ to_int_ok(Get(p, "device_number"))
    /\ to_int_ok(Get(p, "muon_count"))
    /\ to_int_ok(Get(p, "adc_v"))
    /\ to_int_ok(Get(p, "temp_adc_v"))
    /\ to_int_ok(Get(p, "wait_cnt"))
    /\ to_bool_ok(Get(p, "coincidence"))

\* lines 283-293
SampleRow(id, d, abs_ts, p) ==
    [id |-> id, device_id |-> d, ts |-> abs_ts,
     device_number |-> to_int(Get(p, "device_number")),
     muon_count |-> to_int(Get(p, "muon_count")),
     adc_v |-> to_int(Get(p, "adc_v")),
     temp_adc_v |-> to_int(Get(p, "temp_adc_v")),
     dt |-> SafeDt(p),
     wait_cnt |-> to_int(Get(p, "wait_cnt")),
     coincidence |-> to_bool(Get(p, "coincidence"))]

\* the upsert leaves last_seen out
DeviceRow_NoLastSeen(abs_ts, p, meta) ==
    [last_seen |-> NoneTs, online |-> TRUE,
     device_number |-> JInt(to_int(Get(p, "device_number"))),
     meta |-> IF meta = EmptyMeta THEN Null ELSE meta]

\* lines 301-323: the devices upsert of a telemetry message
DeviceRow(abs_ts, p, meta) ==
    [last_seen |-> abs_ts, online |-> TRUE,
     device_number |-> JInt(to_int(Get(p, "device_number"))),
     meta |-> IF meta = EmptyMeta THEN Null ELSE meta]

\* lines 327-376: the late-field merge into the run the device meta points at
LateMerge(rs, d, p, meta) ==
    IF /\ Has(p, "baseline") \/ Has(p, "is_leader") \/ Has(p, "reset_threshold")
       /\ CurrentBase(meta) # NoneTs
    THEN LET base == CurrentBase(meta)
             hit == RunIndex(rs, d, base)
             old == IF hit = {} THEN EmptyRunMeta
                    ELSE LET r == rs[CHOOSE i \in hit : \A j \in hit : i <= j]
                         IN  IF r.meta = Null THEN EmptyRunMeta ELSE r.meta
             m1 == IF Has(p, "baseline")
                   THEN [old EXCEPT !["baseline"] = Get(p, "baseline")] ELSE old
             m2 == IF Has(p, "is_leader")
                   THEN [m1 EXCEPT !["is_leader"] = JBool(Truthy(Get(p, "is_leader")))]
                   ELSE m1
             m3 == IF Has(p, "reset_threshold")
                   THEN [m2 EXCEPT !["reset_threshold"] = Get(p, "reset_threshold")]
                   ELSE m2
             m4 == IF Has(p, "threshold")
                   THEN [m3 EXCEPT !["threshold"] = Get(p, "threshold")] ELSE m3
             m5 == IF m4["source"] = Absent
                   THEN [m4 EXCEPT !["source"] = JStr("bridge")] ELSE m4
         IN  UpsertRunMeta(rs, d, base, m5)
    ELSE rs

(***************************************************************************)
(* on_message (bridge.py 127-393), one action per way through it.  The     *)
(* block "with engine.begin() as conn" commits when it is left by return   *)
(* or by falling off its end, and rolls back when an exception leaves it.  *)
(***************************************************************************)
Devices == {"dev1", "dev2"}

\* json.loads outside any try: the decoding error leaves on_message
OnBadJSON_Raises ==
    /\ bridge_raised' = TRUE
    /\ last_msg' = "badjson"
    /\ UNCHANGED <<samples, devices, runs, last_controls>>
    /\ UNCHANGED webVars

\* lines 129-132: the payload is no JSON; return before any transaction
OnBadJSON ==
    /\ bridge_raised' = FALSE
    /\ last_msg' = "badjson"
    /\ UNCHANGED <<samples, devices, runs, last_controls>>
    /\ UNCHANGED webVars

\* line 135: engine.begin() or a statement of the main path fails; the
\* exception leaves on_message and the transaction is rolled back
OnStoreFailure ==
    /\ bridge_raised' = TRUE
    /\ last_msg' = "json"
    /\ UNCHANGED <<samples, devices, runs, last_controls>>
    /\ UNCHANGED webVars

\* the cache keeps the first payload of a device
OnControl_KeepsFirst(d, p) ==
    /\ last_controls' = IF last_controls[d] = NoCtl
                        THEN [last_controls EXCEPT ![d] = p]
                        ELSE last_controls
    /\ bridge_raised' = FALSE
    /\ last_msg' = "json"
    /\ UNCHANGED <<samples, devices, runs>>
    /\ UNCHANGED webVars

\* lines 141-144: dict(payload), and the payload itself when dict() raises.
\* dict() copies an object, builds an object from an array of pairs and
\* raises on a number or a string
PyDict(p) == IF IsPairs(p) THEN p.pairs ELSE p

\* lines 136-146: control/<d>/set
OnControl(d, p) ==
    /\ last_controls' = [last_controls EXCEPT ![d] = PyDict(p)]
    /\ bridge_raised' = FALSE
    /\ last_msg' = "json"
    /\ UNCHANGED <<samples, devices, runs>>
    /\ UNCHANGED webVars

\* the conflict branch writes every column of the values clause
OnStatus_ResetsMeta(d, now) ==
    /\ devices' = [devices EXCEPT ![d] =
                     [last_seen |-> now, online |-> TRUE,
                      device_number |-> Null, meta |-> Null]]
    /\ bridge_raised' = FALSE
    /\ last_msg' = "json"
    /\ UNCHANGED <<samples, runs, last_controls>>
    /\ UNCHANGED webVars

\* lines 381-393: status/<d>
OnStatus(d, now) ==
    /\ devices' = [devices EXCEPT ![d] =
                     IF devices[d] = NoRow
                     THEN [last_seen |-> now, online |-> TRUE,
                           device_number |-> Null, meta |-> Null]
                     ELSE [devices[d] EXCEPT !.last_seen = now, !.online = TRUE]]
    /\ bridge_raised' = FALSE
    /\ last_msg' = "json"
    /\ UNCHANGED <<samples, runs, last_controls>>
    /\ UNCHANGED webVars

\* lines 163-175: the first exception a parse_ts call of the telemetry
\* block raises, "none" when each returns.  The "or" of 171-173 calls the
\* next parse_ts only when the one before returned None
ParseError(p) ==
    LET chain == <<parse_ts_error(PyOr(PyOr(Get(p, "timestamp"), Get(p, "ts")),
                                       Get(p, "end_time"))),
                   parse_ts_error(Get(p, "run_base_ts")),
                   IF parse_ts(Get(p, "run_base_ts")) = NoneTs
                   THEN parse_ts_error(Get(p, "run_start_ts")) ELSE "none",
                   IF TsOr(parse_ts(Get(p, "run_base_ts")),
                           parse_ts(Get(p, "run_start_ts"))) = NoneTs
                   THEN parse_ts_error(Get(p, "run_start")) ELSE "none">>
        errs == {i \in 1..4 : chain[i] # "none"}
    IN  IF errs = {} THEN "none"
        ELSE chain[CHOOSE i \in errs : \A j \in errs : i <= j]

\* line 163 on a payload that is no object: payload.get raises
\* AttributeError, which "except ValueError" does not catch; lines 190-193
\* raise the same on a cached control payload that is no object; an
\* OverflowError of parse_ts is not caught either
TelemetryRaises(cached, p) ==
    IF p = NotObject THEN TRUE
    ELSE IF ParseError(p) # "none" THEN ParseError(p) = "OverflowError"
    ELSE /\ AnnouncedBase(p) # NoneTs
         /\ EnrichRaises(p, CachedControl(cached))

\* how a telemetry call ends: an exception leaves it ("raised"), a
\* ValueError is caught at lines 294-296 ("dropped": a required field does
\* not coerce, or parse_ts raised it), or the sample is stored
TelemetryOutcome(cached, p) ==
    IF TelemetryRaises(cached, p) THEN "raised"
    ELSE IF ParseError(p) = "ValueError" THEN "dropped"
    ELSE IF ~RequiredOk(p) THEN "dropped"
    ELSE "stored"

\* lines 148-379 as a function: the store st = [samples, devices, runs]
\* after a telemetry message for d with payload p received at now, cached
\* being last_controls.get(d), and how the call ended
Telemetry(st, cached, d, p, now) ==
    IF TelemetryOutcome(cached, p) = "raised"
    THEN \* the exception leaves the with block: rollback
         [samples |-> st.samples, devices |-> st.devices, runs |-> st.runs,
          outcome |-> "raised"]
    ELSE IF ParseError(p) = "ValueError"
    THEN \* lines 294-296 before any statement has run
         [samples |-> st.samples, devices |-> st.devices, runs |-> st.runs,
          outcome |-> "dropped"]
    ELSE LET ctl == CachedControl(cached)
             meta1 == MetaAfterAnnounce(LoadMeta(st.devices, d), p, ctl)
             runs1 == RunsAfterAnnounce(st.runs, d, p, ctl)
             meta2 == MetaAfterMetrics(meta1, p)
             abs_ts == ResolveTs(meta2, p, now)
         IN  IF TelemetryOutcome(cached, p) = "dropped"
             THEN \* lines 294-296: return inside the with block commits
                  [samples |-> st.samples, devices |-> st.devices, runs |-> runs1,
                   outcome |-> "dropped"]
             ELSE [samples |-> Append(st.samples,
                                      SampleRow(Len(st.samples) + 1, d, abs_ts, p)),
                   devices |-> [st.devices EXCEPT ![d] = DeviceRow(abs_ts, p, meta2)],
                   runs |-> LateMerge(runs1, d, p, meta2),
                   outcome |-> "stored"]

Store == [samples |-> samples, devices |-> devices, runs |-> runs]

\* telemetry/<d>
OnTelemetry(d, p, now) ==
    /\ TelemetryOutcome(last_controls[d], p) = "stored" => Len(samples) < MaxSamples
    /\ \E r \in {Telemetry(Store, last_controls[d], d, p, now)} :
        /\ samples' = r.samples
        /\ devices' = r.devices
        /\ runs' = r.runs
        /\ bridge_raised' = (r.outcome = "raised")
        /\ last_msg' = "json"
        /\ UNCHANGED last_controls
        /\ UNCHANGED webVars

\* telemetry/<d> as one message of a long stream: the same handler, with
\* the samples table bounded by the length of the stream
OnTelemetryStream(d, p, now) ==
    /\ Len(samples) < MaxStream
    /\ \E r \in {Telemetry(Store, last_controls[d], d, p, now)} :
        /\ samples' = r.samples
        /\ devices' = r.devices
        /\ runs' = r.runs
        /\ bridge_raised' = (r.outcome = "raised")
        /\ last_msg' = "json"
        /\ UNCHANGED last_controls
        /\ UNCHANGED webVars

\* does the late-field merge of a stored message reach the store (lines
\* 328-344): one of the three fields is in the payload and the device meta
\* points at a run
MergeExecutes(st, cached, d, p) ==
    /\ TelemetryOutcome(cached, p) = "stored"
    /\ Has(p, "baseline") \/ Has(p, "is_leader") \/ Has(p, "reset_threshold")
    /\ CurrentBase(MetaAfterAnnounce(LoadMeta(st.devices, d), p, CachedControl(cached)))
           # NoneTs

\* telemetry/<d> when a statement of the late-field merge (lines 344, 375)
\* fails in the store.  "except Exception" (377) swallows the error inside
\* the one transaction of line 135 that also holds the sample insert and
\* the device upsert.  PostgreSQL has aborted that transaction: when the
\* with block commits, a statement error makes the COMMIT a rollback that
\* reports nothing (commit_raises FALSE), a lost connection makes the
\* commit raise (commit_raises TRUE).  Either way nothing is stored.
OnMergeFailure(d, p, commit_raises) ==
    /\ MergeExecutes(Store, last_controls[d], d, p)
    /\ bridge_raised' = commit_raises
    /\ last_msg' = "json"
    /\ UNCHANGED <<samples, devices, runs, last_controls>>
    /\ UNCHANGED webVars

(***************************************************************************)
(* The timed-session controller (app.py 20-96, 417-521).                   *)
(***************************************************************************)
NoSession == [nosession |-> TRUE]    \* device id not in _active_sessions
NoThread == 0                        \* 'timer': None
NoTime == 0 - 1                      \* 'start_time' / 'stop_time': None
NoRequest == [norequest |-> TRUE]

MAX_DURATION == 604800

\* store queries of the controller
\* func.max(Sample.id) of the device, or 0 (line 444)
LastSampleId(d) ==
    LET ids == {i \in 1..Len(samples) : samples[i].device_id = d}
    IN  IF ids = {} THEN 0 ELSE CHOOSE i \in ids : \A j \in ids : j <= i

\* the base_ts of the device's Run with the greatest base_ts, or None
\* (lines 51-53 and 445-448)
LatestRunBase(d) ==
    LET bases == {runs[i].base_ts : i \in RunIndexOf(d)}
    IN  IF bases = {} THEN NoneTs ELSE CHOOSE b \in bases : \A c \in bases : c <= b

\* is there a Sample of the device with id > after and ts >= base (lines 69-73)
FirstSampleExists(d, after, base) ==
    \E i \in 1..Len(samples) :
        /\ samples[i].device_id = d
        /\ samples[i].id > after
        /\ samples[i].ts >= base

\* publish_control(device_id, payload): the command leaves for the broker.
\* by and session_id record which code path published and for which
\* session token; they are not part of the message.
Publish(log, d, cmd, by, sid) ==
    Append(log, [device |-> d, cmd |-> cmd, by |-> by, session_id |-> sid])

\* lines 421-433: int(payload.get('duration_s', 0)) and the range checks
DurationOk(v) ==
    /\ to_int_ok(v)
    /\ to_int(v) > 0
    /\ to_int(v) <= MAX_DURATION

\* lines 437-439: is there an entry whose 'timer' is set
HasTimer(d) == IF sessions[d] = NoSession THEN FALSE ELSE sessions[d].timer # NoThread

\* lines 417-433: the request is rejected with 400 before the lock is taken
StartReject(d, v) ==
    /\ ~DurationOk(v)
    /\ http_code' = 400
    /\ UNCHANGED <<sessions, lock, start_req, waiters, timers, stops, published, clock_ns>>
    /\ UNCHANGED bridgeVars

\* lines 437-440: the old entry's 'timer' is a threading.Thread, which has
\* no cancel(); the AttributeError leaves the with block (the lock is
\* released) before "del", and the request ends as a 500
StartCancelRaises(d, v) ==
    /\ DurationOk(v)
    /\ lock = "free"
    /\ HasTimer(d)
    /\ http_code' = 500
    /\ UNCHANGED <<sessions, lock, start_req, waiters, timers, stops, published, clock_ns>>
    /\ UNCHANGED bridgeVars

\* lines 435-444: take the lock, discard the old entry, read the last
\* sample id
StartBegin(d, v) ==
    /\ DurationOk(v)
    /\ lock = "free"
    /\ clock_ns < MaxStarts
    /\ ~HasTimer(d)
    /\ lock' = "start"
    /\ sessions' = [sessions EXCEPT ![d] = NoSession]
    /\ start_req' = [device |-> d, duration_s |-> to_int(v),
                     last_sample_id |-> LastSampleId(d)]
    /\ UNCHANGED <<waiters, timers, stops, published, clock_ns, http_code>>
    /\ UNCHANGED bridgeVars

\* the token is the clock value drawn by an earlier request
StartFinish_StaleClock ==
    /\ lock = "start"
    /\ LET d == start_req.device
           sid == IF clock_ns = 0 THEN 1 ELSE clock_ns
       IN  /\ clock_ns' = clock_ns + 1
           /\ published' = Publish(published, d, "new_run", "start", sid)
           /\ sessions' = [sessions EXCEPT ![d] =
                  [session_id |-> sid, state |-> "pending",
                   duration_s |-> start_req.duration_s,
                   start_after_id |-> start_req.last_sample_id,
                   last_run_base_ts |-> LatestRunBase(d),
                   run_base_ts |-> NoneTs, timer |-> NoThread,
                   stop_time |-> NoTime, start_time |-> NoTime]]
           /\ waiters' = waiters \cup
                  {[device |-> d, session_id |-> sid, pc |-> "check",
                    start_after_id |-> 0, duration_s |-> 0,
                    last_run_base_ts |-> NoneTs, run_base_ts |-> NoneTs,
                    start_time |-> NoTime]}
           /\ http_code' = 200
    /\ lock' = "free"
    /\ start_req' = NoRequest
    /\ UNCHANGED <<timers, stops>>
    /\ UNCHANGED bridgeVars

\* lines 445-478: read the last run, draw the token, publish new_run,
\* store the entry, start the await thread, release the lock
StartFinish ==
    /\ lock = "start"
    /\ LET d == start_req.device
           sid == clock_ns + 1
       IN  /\ clock_ns' = sid
           /\ published' = Publish(published, d, "new_run", "start", sid)
           /\ sessions' = [sessions EXCEPT ![d] =
                  [session_id |-> sid, state |-> "pending",
                   duration_s |-> start_req.duration_s,
                   start_after_id |-> start_req.last_sample_id,
                   last_run_base_ts |-> LatestRunBase(d),
                   run_base_ts |-> NoneTs, timer |-> NoThread,
                   stop_time |-> NoTime, start_time |-> NoTime]]
           /\ waiters' = waiters \cup
                  {[device |-> d, session_id |-> sid, pc |-> "check",
                    start_after_id |-> 0, duration_s |-> 0,
                    last_run_base_ts |-> NoneTs, run_base_ts |-> NoneTs,
                    start_time |-> NoTime]}
           /\ http_code' = 200
    /\ lock' = "free"
    /\ start_req' = NoRequest
    /\ UNCHANGED <<timers, stops>>
    /\ UNCHANGED bridgeVars

\* the shutdown is published before the entry is looked up
StopMissing_Publishes(d) ==
    /\ lock = "free"
    /\ sessions[d] = NoSession
    /\ published' = Publish(published, d, "shutdown", "stop", 0)
    /\ http_code' = 404
    /\ UNCHANGED <<sessions, lock, start_req, waiters, timers, stops, clock_ns>>
    /\ UNCHANGED bridgeVars

\* lines 480-485: no session for the device
StopMissing(d) ==
    /\ lock = "free"
    /\ sessions[d] = NoSession
    /\ http_code' = 404
    /\ UNCHANGED <<sessions, lock, start_req, waiters, timers, stops, published, clock_ns>>
    /\ UNCHANGED bridgeVars

\* the entry is left in the map
StopRemove_NoDelete(d) ==
    /\ lock = "free"
    /\ sessions[d] # NoSession
    /\ sessions[d].session_id \notin {r.session_id : r \in stops}
    /\ stops' = stops \cup {[device |-> d, session_id |-> sessions[d].session_id]}
    /\ UNCHANGED <<sessions, lock, start_req, waiters, timers, published, clock_ns,
                   http_code>>
    /\ UNCHANGED bridgeVars

\* lines 483-494: under the lock, delete the entry
StopRemove(d) ==
    /\ lock = "free"
    /\ sessions[d] # NoSession
    /\ sessions' = [sessions EXCEPT ![d] = NoSession]
    /\ stops' = stops \cup {[device |-> d, session_id |-> sessions[d].session_id]}
    /\ UNCHANGED <<lock, start_req, waiters, timers, published, clock_ns, http_code>>
    /\ UNCHANGED bridgeVars

\* the request stays queued after its shutdown has been published
StopPublish_Repeats(r) ==
    /\ r \in stops
    /\ Len(published) < 2 * MaxStarts + 2
    /\ published' = Publish(published, r.device, "shutdown", "stop", r.session_id)
    /\ http_code' = 200
    /\ UNCHANGED <<sessions, lock, start_req, waiters, timers, stops, clock_ns>>
    /\ UNCHANGED bridgeVars

\* lines 496-499: after the lock is released, publish shutdown and answer
StopPublish(r) ==
    /\ r \in stops
    /\ stops' = stops \ {r}
    /\ published' = Publish(published, r.device, "shutdown", "stop", r.session_id)
    /\ http_code' = 200
    /\ UNCHANGED <<sessions, lock, start_req, waiters, timers, clock_ns>>
    /\ UNCHANGED bridgeVars

\* lines 501-521: what get_session answers
Status(d) ==
    IF sessions[d] = NoSession
    THEN [active |-> FALSE]
    ELSE [active |-> TRUE, duration_s |-> sessions[d].duration_s,
          stop_time |-> sessions[d].stop_time,
          pending |-> sessions[d].state = "pending"]

(***************************************************************************)
(* send_control (app.py 366-415): the body is an object with the keys of   *)
(* a control payload.                                                      *)
(***************************************************************************)
THRESHOLD_MAX == 4095

\* lines 372-378 and 382-388: int(payload[k]) succeeds and lies in [0, 4095]
ThresholdOk(v) ==
    /\ to_int_ok(v)
    /\ to_int(v) >= 0
    /\ to_int(v) <= THRESHOLD_MAX

\* lines 393-400: meta.get('metrics', {}).get('threshold') of the device's
\* row, None when there is no row, no meta, no metrics or no such key
MetaThreshold(devs, d) ==
    LET m == LoadMeta(devs, d).metrics
    IN  IF m = Absent THEN Null
        ELSE IF "threshold" \in DOMAIN m THEN m["threshold"] ELSE Null

\* lines 391-409: is reset_threshold refused for not being below the
\* effective threshold (the body's, already an int, else the device's)
ResetTooHigh(devs, d, body) ==
    LET eff == IF Get(body, "threshold") # Null
               THEN JInt(to_int(Get(body, "threshold")))
               ELSE MetaThreshold(devs, d)
    IN  /\ eff # Null
        /\ to_int_ok(eff)
        /\ to_int(Get(body, "reset_threshold")) >= to_int(eff)

\* lines 372-412: does the request pass every check
ControlOk(devs, d, body) ==
    /\ Has(body, "threshold") => ThresholdOk(body["threshold"])
    /\ Has(body, "reset_threshold")
          => /\ ThresholdOk(body["reset_threshold"])
             /\ ~ResetTooHigh(devs, d, body)

\* lines 380 and 412: the two fields replaced by their int() values
Normalised(body) ==
    [k \in DOMAIN body |->
        IF k \in {"threshold", "reset_threshold"} /\ Has(body, k)
        THEN JInt(to_int(body[k])) ELSE body[k]]

\* lines 366-415: POST /api/control/<d>
SendControl(d, body) ==
    /\ Len(published) < MaxControls
    /\ IF ControlOk(devices, d, body)
       THEN /\ published' = Append(published,
                                   [device |-> d, cmd |-> "control",
                                    by |-> "send_control", session_id |-> 0,
                                    payload |-> Normalised(body)])
            /\ http_code' = 200
       ELSE /\ http_code' = 400
            /\ UNCHANGED published
    /\ UNCHANGED <<sessions, lock, start_req, waiters, timers, stops, clock_ns>>
    /\ UNCHANGED bridgeVars

\* the answer without the max(0, ...) of line 513
get_session_NoClamp(d, now) ==
    IF sessions[d] = NoSession
    THEN [active |-> FALSE]
    ELSE [active |-> TRUE,
          duration_s |-> sessions[d].duration_s,
          remaining_s |-> IF sessions[d].stop_time # NoTime
                          THEN Trunc(sessions[d].stop_time * 10 - now)
                          ELSE NoTime,
          stop_time |-> sessions[d].stop_time,
          pending |-> sessions[d].state = "pending"]

\* lines 501-521 in full: the answer of get_session when time.time()
\* returns now, in tenths of a second.  stop_time is in whole seconds;
\* None is NoTime
get_session(d, now) ==
    IF sessions[d] = NoSession
    THEN [active |-> FALSE]
    ELSE [active |-> TRUE,
          duration_s |-> sessions[d].duration_s,
          remaining_s |-> IF sessions[d].stop_time # NoTime
                          THEN LET left == Trunc(sessions[d].stop_time * 10 - now)
                               IN  IF left > 0 THEN left ELSE 0
                          ELSE NoTime,
          stop_time |-> sessions[d].stop_time,
          pending |-> sessions[d].state = "pending"]

\* values of time.time() at a status query, in tenths of a second: none is
\* before the start time the await thread read
QueryTimes == {10000, 10015, 10049, 10050, 10051, 10100, 10120}

(***************************************************************************)
(* _await_first_sample_then_start (app.py 36-96): one thread per start.    *)
(* pc is the statement the thread executes next.                           *)
(***************************************************************************)
StartTimes == {1000}                 \* the value time.time() returns

\* any entry of the device counts, whatever its token
IsCurrent_AnyToken(d, sid) == sessions[d] # NoSession

\* does the device's entry still carry this token
IsCurrent(d, sid) ==
    /\ sessions[d] # NoSession
    /\ sessions[d].session_id = sid

Replace(set, old, new) == (set \ {old}) \cup {new}

\* lines 40-47: under the lock, leave when superseded or stopped, else copy
\* the entry's fields
WaiterCheck(w) ==
    /\ w \in waiters
    /\ w.pc = "check"
    /\ lock = "free"
    /\ IF ~IsCurrent(w.device, w.session_id)
       THEN waiters' = waiters \ {w}
       ELSE LET e == sessions[w.device]
            IN  waiters' = Replace(waiters, w,
                   [w EXCEPT !.start_after_id = e.start_after_id,
                             !.duration_s = e.duration_s,
                             !.last_run_base_ts = e.last_run_base_ts,
                             !.run_base_ts = e.run_base_ts,
                             !.pc = IF e.run_base_ts = NoneTs
                                    THEN "query_run" ELSE "query_sample"])
    /\ UNCHANGED <<sessions, lock, start_req, timers, stops, published, clock_ns,
                   http_code>>
    /\ UNCHANGED bridgeVars

\* any run of the device counts as new
WaiterQueryRun_AnyRun(w, db_ok) ==
    /\ w \in waiters
    /\ w.pc = "query_run"
    /\ LET latest == IF db_ok THEN LatestRunBase(w.device) ELSE NoneTs
       IN  IF latest # NoneTs
           THEN waiters' = Replace(waiters, w,
                   [w EXCEPT !.run_base_ts = latest, !.pc = "set_run"])
           ELSE waiters' = Replace(waiters, w, [w EXCEPT !.pc = "check"])
    /\ UNCHANGED <<sessions, lock, start_req, timers, stops, published, clock_ns,
                   http_code>>
    /\ UNCHANGED bridgeVars

\* the latest run counts as new when it is the run that was there at start
WaiterQueryRun_NotStrict(w, db_ok) ==
    /\ w \in waiters
    /\ w.pc = "query_run"
    /\ LET latest == IF db_ok THEN LatestRunBase(w.device) ELSE NoneTs
       IN  IF /\ latest # NoneTs
              /\ w.last_run_base_ts = NoneTs \/ latest >= w.last_run_base_ts
           THEN waiters' = Replace(waiters, w,
                   [w EXCEPT !.run_base_ts = latest, !.pc = "set_run"])
           ELSE waiters' = Replace(waiters, w, [w EXCEPT !.pc = "check"])
    /\ UNCHANGED <<sessions, lock, start_req, timers, stops, published, clock_ns,
                   http_code>>
    /\ UNCHANGED bridgeVars

\* lines 49-66: query the latest Run, without the lock; a failed query
\* counts as no run.  Without a newer run: sleep, then loop
WaiterQueryRun(w, db_ok) ==
    /\ w \in waiters
    /\ w.pc = "query_run"
    /\ LET latest == IF db_ok THEN LatestRunBase(w.device) ELSE NoneTs
       IN  IF /\ latest # NoneTs
              /\ w.last_run_base_ts = NoneTs \/ latest > w.last_run_base_ts
           THEN waiters' = Replace(waiters, w,
                   [w EXCEPT !.run_base_ts = latest, !.pc = "set_run"])
           ELSE waiters' = Replace(waiters, w, [w EXCEPT !.pc = "check"])
    /\ UNCHANGED <<sessions, lock, start_req, timers, stops, published, clock_ns,
                   http_code>>
    /\ UNCHANGED bridgeVars

\* lines 59-62: under the lock, record the run base in the entry if the
\* token still matches
WaiterSetRun(w) ==
    /\ w \in waiters
    /\ w.pc = "set_run"
    /\ lock = "free"
    /\ sessions' = IF IsCurrent(w.device, w.session_id)
                   THEN [sessions EXCEPT ![w.device].run_base_ts = w.run_base_ts]
                   ELSE sessions
    /\ waiters' = Replace(waiters, w, [w EXCEPT !.pc = "query_sample"])
    /\ UNCHANGED <<lock, start_req, timers, stops, published, clock_ns, http_code>>
    /\ UNCHANGED bridgeVars

\* lines 68-85 and 96: query the first sample, without the lock; when there
\* is one, read the clock and start the stop-after-delay thread; when
\* there is none (or the query fails): sleep, then loop
WaiterQuerySample(w, db_ok, now) ==
    /\ w \in waiters
    /\ w.pc = "query_sample"
    /\ IF db_ok /\ FirstSampleExists(w.device, w.start_after_id, w.run_base_ts)
       THEN /\ waiters' = Replace(waiters, w,
                   [w EXCEPT !.start_time = now, !.pc = "set_running"])
            /\ timers' = timers \cup
                   {[device |-> w.device, session_id |-> w.session_id,
                     duration_s |-> w.duration_s, pc |-> "sleeping"]}
       ELSE /\ waiters' = Replace(waiters, w, [w EXCEPT !.pc = "check"])
            /\ UNCHANGED timers
    /\ UNCHANGED <<sessions, lock, start_req, stops, published, clock_ns, http_code>>
    /\ UNCHANGED bridgeVars

\* the entry is marked running without its stop_time
WaiterSetRunning_NoStopTime(w) ==
    /\ w \in waiters
    /\ w.pc = "set_running"
    /\ lock = "free"
    /\ sessions' = IF IsCurrent(w.device, w.session_id)
                   THEN [sessions EXCEPT ![w.device] =
                           [@ EXCEPT !.state = "running",
                                     !.start_time = w.start_time,
                                     !.timer = w.session_id]]
                   ELSE sessions
    /\ waiters' = waiters \ {w}
    /\ UNCHANGED <<lock, start_req, timers, stops, published, clock_ns, http_code>>
    /\ UNCHANGED bridgeVars

\* lines 87-94: under the lock, mark the entry running if the token still
\* matches; the thread ends
WaiterSetRunning(w) ==
    /\ w \in waiters
    /\ w.pc = "set_running"
    /\ lock = "free"
    /\ sessions' = IF IsCurrent(w.device, w.session_id)
                   THEN [sessions EXCEPT ![w.device] =
                           [@ EXCEPT !.state = "running",
                                     !.start_time = w.start_time,
                                     !.stop_time = w.start_time + w.duration_s,
                                     !.timer = w.session_id]]
                   ELSE sessions
    /\ waiters' = waiters \ {w}
    /\ UNCHANGED <<lock, start_req, timers, stops, published, clock_ns, http_code>>
    /\ UNCHANGED bridgeVars

(***************************************************************************)
(* _stop_session_after_delay (app.py 25-34): the thread wakes after        *)
(* duration_s and, under the lock, publishes shutdown and deletes the      *)
(* entry if the token still matches.  A thread that has returned stays in  *)
(* timers with pc "done".                                                  *)
(***************************************************************************)
\* the thread acts on whatever entry the device has, whatever its token
TimerFire_NoTokenCheck(t) ==
    /\ t \in timers
    /\ t.pc = "sleeping"
    /\ lock = "free"
    /\ timers' = Replace(timers, t, [t EXCEPT !.pc = "done"])
    /\ IF sessions[t.device] # NoSession
       THEN /\ published' = Publish(published, t.device, "shutdown", "timer", t.session_id)
            /\ sessions' = [sessions EXCEPT ![t.device] = NoSession]
       ELSE UNCHANGED <<published, sessions>>
    /\ UNCHANGED <<lock, start_req, waiters, stops, clock_ns, http_code>>
    /\ UNCHANGED bridgeVars

\* the thread acts when the token differs, not when it matches
TimerFire_WrongCompare(t) ==
    /\ t \in timers
    /\ t.pc = "sleeping"
    /\ lock = "free"
    /\ timers' = Replace(timers, t, [t EXCEPT !.pc = "done"])
    /\ IF sessions[t.device] # NoSession /\ ~IsCurrent(t.device, t.session_id)
       THEN /\ published' = Publish(published, t.device, "shutdown", "timer", t.session_id)
            /\ sessions' = [sessions EXCEPT ![t.device] = NoSession]
       ELSE UNCHANGED <<published, sessions>>
    /\ UNCHANGED <<lock, start_req, waiters, stops, clock_ns, http_code>>
    /\ UNCHANGED bridgeVars

\* the thread also acts when the device has no entry any more
TimerFire_AlsoWhenGone(t) ==
    /\ t \in timers
    /\ t.pc = "sleeping"
    /\ lock = "free"
    /\ timers' = Replace(timers, t, [t EXCEPT !.pc = "done"])
    /\ IF sessions[t.device] = NoSession \/ IsCurrent(t.device, t.session_id)
       THEN /\ published' = Publish(published, t.device, "shutdown", "timer", t.session_id)
            /\ sessions' = [sessions EXCEPT ![t.device] = NoSession]
       ELSE UNCHANGED <<published, sessions>>
    /\ UNCHANGED <<lock, start_req, waiters, stops, clock_ns, http_code>>
    /\ UNCHANGED bridgeVars

\* lines 25-34
TimerFire(t) ==
    /\ t \in timers
    /\ t.pc = "sleeping"
    /\ lock = "free"
    /\ timers' = Replace(timers, t, [t EXCEPT !.pc = "done"])
    /\ IF IsCurrent(t.device, t.session_id)
       THEN /\ published' = Publish(published, t.device, "shutdown", "timer", t.session_id)
            /\ sessions' = [sessions EXCEPT ![t.device] = NoSession]
       ELSE UNCHANGED <<published, sessions>>
    /\ UNCHANGED <<lock, start_req, waiters, stops, clock_ns, http_code>>
    /\ UNCHANGED bridgeVars

(***************************************************************************)
(* Inputs.                                                                 *)
(***************************************************************************)
BaseA == MIN_VALID + 1000            \* two run bases above the floor
BaseB == MIN_VALID + 2000
Early == MIN_VALID + 500             \* a valid instant before both bases
Receipt == MIN_VALID + 3000          \* datetime.now() at receipt

\* a telemetry payload whose required fields all coerce
Good ==
    [EmptyPayload EXCEPT !["device_number"] = JInt(3), !["muon_count"] = JInt(12),
                         !["adc_v"] = JInt(100), !["temp_adc_v"] = JDigits(50),
                         !["wait_cnt"] = JInt(1), !["coincidence"] = JStr("true")]

Announce(base) == [Good EXCEPT !["run_base_ts"] = JIso(base)]

Old == MIN_VALID - 1000              \* an instant before 2000-01-01

\* a sample 500 ms after the last, stamped and announced before the floor
StalePayload ==
    [Good EXCEPT !["timestamp"] = JIso(Old), !["run_base_ts"] = JIso(Old),
                 !["dt"] = JInt(500)]

\* a sample that carries its own valid timestamp
StampedPayload == [Good EXCEPT !["timestamp"] = JIso(Early)]

\* payloads of the bridge specification
BridgePayloads ==
    { Good,
      [Announce(BaseA) EXCEPT !["run_id"] = JInt(7)],
      [Announce(BaseA) EXCEPT !["baseline"] = JInt(5), !["is_leader"] = JBool(TRUE)],
      Announce(BaseB),
      [Announce(BaseB) EXCEPT !["muon_count"] = Absent],
      [Good EXCEPT !["wait_cnt"] = Null],
      NotObject }

\* payloads of the timestamp specification
TsPayloads ==
    { Good,
      Announce(BaseA),
      [Announce(BaseB) EXCEPT !["dt"] = JInt(250)],
      [Good EXCEPT !["dt"] = JInt(500)],
      [Good EXCEPT !["dt"] = JDigits(125)],
      [Good EXCEPT !["dt"] = JStr("soon")],
      StalePayload,
      StampedPayload }

\* what the second device sends meanwhile: the same base as the first
OtherPayloads == { Announce(BaseA) }

ControlPayloads ==
    { [EmptyControl EXCEPT !["threshold"] = JInt(2048)],
      [EmptyControl EXCEPT !["threshold"] = JInt(1024), !["is_leader"] = JInt(1)],
      NotObject }

\* what the second device is sent meanwhile
OtherControls == { [EmptyControl EXCEPT !["threshold"] = JInt(2048)] }

\* control payloads that are valid JSON and no object: a number, and the
\* array [["threshold", 512]]
ArrayControls ==
    { NotObject,
      JPairs([EmptyControl EXCEPT !["threshold"] = JInt(512)]) }

\* payloads of the controller specifications: what a device sends after
\* new_run, and a sample that predates both runs
SessionPayloads ==
    { [Good EXCEPT !["timestamp"] = JIso(Early)],
      Announce(BaseA),
      Announce(BaseB) }

\* duration_s as sent by the operator
Durations == {JInt(5), JInt(10), JInt(0), JStr("soon"), Absent}

(***************************************************************************)
(* Specifications.                                                         *)
(***************************************************************************)
Init ==
    /\ samples = <<>>
    /\ devices = [d \in Devices |-> NoRow]
    /\ runs = <<>>
    /\ last_controls = [d \in Devices |-> NoCtl]
    /\ bridge_raised = FALSE
    /\ last_msg = "none"
    /\ sessions = [d \in Devices |-> NoSession]
    /\ lock = "free"
    /\ start_req = NoRequest
    /\ waiters = {}
    /\ timers = {}
    /\ stops = {}
    /\ published = <<>>
    /\ clock_ns = 0
    /\ http_code = 0

\* the bridge alone, on every topic
NextBridge ==
    \/ OnBadJSON
    \/ OnStoreFailure
    \/ \E p \in ControlPayloads : OnControl("dev1", p)
    \/ \E p \in OtherControls : OnControl("dev2", p)
    \/ \E d \in Devices : OnStatus(d, Receipt)
    \/ \E p \in BridgePayloads : OnTelemetry("dev1", p, Receipt)
    \/ \E p \in OtherPayloads : OnTelemetry("dev2", p, Receipt)
    \/ \E p \in BridgePayloads, raises \in BOOLEAN : OnMergeFailure("dev1", p, raises)

SpecBridge == Init /\ [][NextBridge]_vars

\* the bridge on the telemetry and status topics, with payloads that differ
\* in their timestamps, bases and dt
NextTs ==
    \/ \E p \in TsPayloads : OnTelemetry("dev1", p, Receipt)
    \/ \E p \in OtherPayloads : OnTelemetry("dev2", p, Receipt)
    \/ \E d \in Devices : OnStatus(d, Receipt)

SpecTs == Init /\ [][NextTs]_vars

\* the control topic with payloads of every shape, next to a device that
\* sends samples and announces a run
CachePayloads == { Good, Announce(BaseA) }

NextCache ==
    \/ \E d \in Devices, p \in ControlPayloads \cup ArrayControls : OnControl(d, p)
    \/ \E p \in CachePayloads : OnTelemetry("dev1", p, Receipt)
    \/ \E d \in Devices : OnStatus(d, Receipt)

SpecCache == Init /\ [][NextCache]_vars

\* one device sends a first sample with some dt, which seeds the EMA with
\* 1000/dt Hz (100, 20, 10.101, 10, 9.901, 5, 1 and 0.01 Hz), and from then
\* on a sample every 100 ms
SeedDts == {10, 50, 99, 100, 101, 200, 1000, 100000}
StreamDt == 100
StreamPayload(dt) == [Good EXCEPT !["dt"] = JInt(dt)]

NextStream ==
    \/ /\ Len(samples) = 0
       /\ \E dt \in SeedDts : OnTelemetryStream("dev1", StreamPayload(dt), Receipt)
    \/ /\ Len(samples) > 0
       /\ OnTelemetryStream("dev1", StreamPayload(StreamDt), Receipt)

SpecStream == Init /\ [][NextStream]_vars

\* bodies of control requests: thresholds 2048, "171", 12.7, 4095.9 and
\* -0.5, then 4096, -1, "soon" and null; reset thresholds alone (100, 5000
\* and 600), below the threshold and equal to it; and a body with neither
\* field
ControlBodies ==
    { [EmptyControl EXCEPT !["threshold"] = JInt(2048)],
      [EmptyControl EXCEPT !["threshold"] = JDigits(171)],
      [EmptyControl EXCEPT !["threshold"] = JFloat(127)],
      [EmptyControl EXCEPT !["threshold"] = JFloat(40959)],
      [EmptyControl EXCEPT !["threshold"] = JFloat(0 - 5)],
      [EmptyControl EXCEPT !["threshold"] = JInt(THRESHOLD_MAX + 1)],
      [EmptyControl EXCEPT !["threshold"] = JInt(0 - 1)],
      [EmptyControl EXCEPT !["threshold"] = JStr("soon")],
      [EmptyControl EXCEPT !["threshold"] = Null],
      [EmptyControl EXCEPT !["reset_threshold"] = JInt(100)],
      [EmptyControl EXCEPT !["threshold"] = JInt(2048), !["reset_threshold"] = JInt(100)],
      [EmptyControl EXCEPT !["threshold"] = JInt(100), !["reset_threshold"] = JInt(100)],
      [EmptyControl EXCEPT !["reset_threshold"] = JInt(5000)],
      [EmptyControl EXCEPT !["reset_threshold"] = JInt(600)],
      [EmptyControl EXCEPT !["baseline"] = JInt(5)] }

\* what the device of the panel sends: samples, a run announcement, and a
\* run announcement that carries the threshold 512 in use
PanelPayloads ==
    CachePayloads \cup { [Announce(BaseA) EXCEPT !["threshold"] = JInt(512)] }

\* control requests for a device that sends samples and announces a run
NextPanel ==
    \/ \E b \in ControlBodies : SendControl("dev1", b)
    \/ \E p \in PanelPayloads : OnTelemetry("dev1", p, Receipt)

SpecPanel == Init /\ [][NextPanel]_vars

\* what a device sends over several runs: samples, the base BaseA announced
\* with a run id and announced with a baseline, the base BaseB, and a
\* sample that carries a late baseline
AnnouncePayloads ==
    { Good,
      [Announce(BaseA) EXCEPT !["run_id"] = JInt(7)],
      [Announce(BaseA) EXCEPT !["baseline"] = JInt(5), !["is_leader"] = JBool(TRUE)],
      Announce(BaseB),
      [Good EXCEPT !["baseline"] = JInt(9)] }

\* one device that announces and re-announces runs while control messages
\* for it arrive
NextAnnounce ==
    \/ \E p \in ControlPayloads : OnControl("dev1", p)
    \/ \E p \in AnnouncePayloads : OnTelemetry("dev1", p, Receipt)

SpecAnnounce == Init /\ [][NextAnnounce]_vars

\* the controller of one device, with the bridge storing what devices send
SessionDevices == {"dev1"}

\* duration_s as sent in the requests of the request specification:
\* 2.5 and 604800, then 0, -5, 0.5, 604801, "soon", null and no key
RequestDurations ==
    { JFloat(25), JInt(MAX_DURATION),
      JInt(0), JInt(0 - 5), JFloat(5), JInt(MAX_DURATION + 1), JStr("soon"), Null,
      Absent }

\* the requests of the controller for devices that send nothing: every
\* answer of start and stop, the refusals included, with the await threads
\* polling for a run that does not come; sessions are started for dev1
NextRequests ==
    \/ \E d \in Devices, v \in RequestDurations : StartReject(d, v)
    \/ \E d \in SessionDevices, v \in RequestDurations : StartBegin(d, v)
    \/ StartFinish
    \/ \E d \in Devices : StopMissing(d)
    \/ \E d \in SessionDevices : StopRemove(d)
    \/ \E r \in stops : StopPublish(r)
    \/ \E w \in waiters : WaiterCheck(w)
    \/ \E w \in waiters, ok \in BOOLEAN : WaiterQueryRun(w, ok)

SpecRequests == Init /\ [][NextRequests]_vars

NextSession ==
    \/ \E p \in SessionPayloads : OnTelemetry("dev1", p, Receipt)
    \/ \E p \in OtherPayloads : OnTelemetry("dev2", p, Receipt)
    \/ \E d \in SessionDevices, v \in Durations : StartCancelRaises(d, v)
    \/ \E d \in SessionDevices, v \in Durations : StartBegin(d, v)
    \/ StartFinish
    \/ \E d \in SessionDevices : StopRemove(d)
    \/ \E r \in stops : StopPublish(r)
    \/ \E w \in waiters : WaiterCheck(w)
    \/ \E w \in waiters, ok \in BOOLEAN : WaiterQueryRun(w, ok)
    \/ \E w \in waiters : WaiterSetRun(w)
    \/ \E w \in waiters, ok \in BOOLEAN, now \in StartTimes : WaiterQuerySample(w, ok, now)
    \/ \E w \in waiters : WaiterSetRunning(w)
    \/ \E t \in timers : TimerFire(t)

Spec == Init /\ [][NextSession]_vars

\* the same, with the scheduling the threads get: a request inside the lock
\* runs on to its end, and a sleeping stop-after-delay thread wakes and
\* gets the lock
SpecLive ==
    /\ Spec
    /\ WF_vars(StartFinish)
    /\ WF_vars(\E t \in timers : TimerFire(t))

(***************************************************************************)
(* Properties of the ingestion bridge.                                     *)
(***************************************************************************)
ObjectPayloads == BridgePayloads \ {NotObject}

\* C1: a telemetry message that is dropped because a required field is
\* missing or does not coerce changes no row of samples, devices or runs,
\* also when it announces a run base.
C1_DroppedMessageChangesNoRow ==
    [][\A d \in Devices, p \in ObjectPayloads :
          (~RequiredOk(p) /\ OnTelemetry(d, p, Receipt))
              => UNCHANGED <<samples, devices, runs>>]_vars

\* C2: once Device.meta.current_run.base_ts is set, no step replaces it by
\* an older base.
C2_RunPointerNeverMovesBack ==
    [][\A d \in Devices :
          CurrentBase(LoadMeta(devices, d)) # NoneTs
              => CurrentBase(LoadMeta(devices', d)) >= CurrentBase(LoadMeta(devices, d))]_vars

\* C3: no two Run rows share (device_id, base_ts); and from every reachable
\* store, a message announcing a base leaves exactly one row for that key,
\* and processing the same message a second time leaves the runs relation
\* as the first time left it.
C3_RunKeyUniqueAndIdempotent ==
    /\ \A i, j \in 1..Len(runs) :
          (runs[i].device_id = runs[j].device_id /\ runs[i].base_ts = runs[j].base_ts)
              => i = j
    /\ \A d \in Devices, p \in ObjectPayloads :
          LET once == Telemetry(Store, last_controls[d], d, p, Receipt)
              twice == Telemetry(once, last_controls[d], d, p, Receipt)
          IN  (AnnouncedBase(p) # NoneTs /\ once.outcome # "raised")
                  => /\ Cardinality(RunIndex(once.runs, d, AnnouncedBase(p))) = 1
                     /\ twice.runs = once.runs

\* C3 witness: the base BaseA of dev1 was announced with run id 7 and then
\* announced again without one (the pointer keeps the id, the row's run_key
\* is reset), both messages stored a sample, and runs holds one row.
C3_Witness ==
    /\ Len(samples) = 2
    /\ Len(runs) = 1
    /\ runs[1].device_id = "dev1"
    /\ runs[1].base_ts = BaseA
    /\ runs[1].run_key = Null
    /\ devices["dev1"] # NoRow
    /\ LoadMeta(devices, "dev1").current_run # Absent
    /\ LoadMeta(devices, "dev1").current_run["id"] = JStr("7")

\* C10: on_message never raises toward the transport client.
C10_BridgeNeverRaises == bridge_raised = FALSE

(***************************************************************************)
(* Properties of the session controller.                                   *)
(***************************************************************************)
IsRunning(d) == IF sessions[d] = NoSession THEN FALSE ELSE sessions[d].state = "running"
IsPending(d) == IF sessions[d] = NoSession THEN FALSE ELSE sessions[d].state = "pending"

\* the tokens of the commands of one kind published by one code path
PublishedTokens(cmd, by) ==
    {published[i].session_id : i \in {j \in 1..Len(published) :
                                        published[j].cmd = cmd /\ published[j].by = by}}

\* C4: a start request with a valid duration for a device whose slot holds
\* a RUNNING session discards the old session and goes on, holding the
\* lock, to publish new_run and store the new PENDING entry.
C4_StartReplacesRunningSession ==
    [][\A d \in SessionDevices, v \in Durations :
          (IsRunning(d) /\ (StartCancelRaises(d, v) \/ StartBegin(d, v)))
              => (sessions'[d] = NoSession /\ lock' = "start")]_vars

\* C5: every start that reaches its end leaves in the device's slot a
\* PENDING entry with the requested duration and a token no earlier session
\* carried; so a start that supersedes a PENDING session leaves the second
\* duration and a different token.
C5_SecondStartSupersedes ==
    [][StartFinish =>
          \E d \in {start_req.device} :
              /\ sessions'[d] # NoSession
              /\ sessions'[d].state = "pending"
              /\ sessions'[d].duration_s = start_req.duration_s
              /\ sessions'[d].session_id \notin PublishedTokens("new_run", "start")
              /\ sessions'[d].timer = NoThread]_vars

\* C5 witness: start(dev1, 5) then start(dev1, 10) with nothing else
\* published: one PENDING session of 10 s with the second token, while the
\* first session's await thread is still alive.
C5_Witness ==
    /\ Len(published) = 2
    /\ published[1].cmd = "new_run" /\ published[2].cmd = "new_run"
    /\ lock = "free"
    /\ IsPending("dev1")
    /\ sessions["dev1"].duration_s = 10
    /\ sessions["dev1"].session_id # published[1].session_id
    /\ \E w \in waiters : w.session_id = published[1].session_id /\ w.duration_s = 5

\* C6: a stop-after-delay thread of token T publishes shutdown only when
\* the device's entry carries T at that moment; a thread that wakes to find
\* T superseded or removed publishes nothing and leaves the map as it is.
C6_StaleTimerDoesNothing ==
    [][/\ \A t \in timers :
            (t.pc = "sleeping" /\ t \notin timers' /\ ~IsCurrent(t.device, t.session_id))
                => (published' = published /\ sessions' = sessions)
       /\ (Len(published') > Len(published) /\ published'[Len(published')].by = "timer")
            => IsCurrent(published'[Len(published')].device,
                         published'[Len(published')].session_id)]_vars

\* C6 witness: a stop-after-delay thread has returned without a shutdown of
\* its token, and the device's entry carries a later token.
C6_Witness ==
    \E t \in timers :
        /\ t.pc = "done"
        /\ t.session_id \notin PublishedTokens("shutdown", "timer")
        /\ sessions[t.device] # NoSession
        /\ sessions[t.device].session_id > t.session_id

\* C7: a RUNNING session has, in the store, a Run of its device with a base
\* strictly newer than last_run_base_ts (any Run when that is null) and a
\* Sample of its device with id > start_after_id and ts >= that base.
C7_RunningHasNewRunAndSample ==
    \A d \in Devices :
        IsRunning(d) =>
            \E i \in RunIndexOf(d) :
                /\ \/ sessions[d].last_run_base_ts = NoneTs
                   \/ runs[i].base_ts > sessions[d].last_run_base_ts
                /\ \E k \in 1..Len(samples) :
                      /\ samples[k].device_id = d
                      /\ samples[k].id > sessions[d].start_after_id
                      /\ samples[k].ts >= runs[i].base_ts

\* C7 witness: a RUNNING session that was started when a run and a sample
\* of the device were already stored.
C7_Witness ==
    /\ IsRunning("dev1")
    /\ sessions["dev1"].last_run_base_ts # NoneTs
    /\ sessions["dev1"].start_after_id > 0

\* C8: a RUNNING session that is neither stopped nor superseded is ended by
\* its deadline: a shutdown of its token is eventually published by the
\* stop-after-delay thread and the entry is gone; and that thread publishes
\* at most one shutdown per token, with the entry removed.
Tokens == 1..MaxStarts
RunningAs(sid) == \E d \in Devices : IsRunning(d) /\ sessions[d].session_id = sid
StoppedTokens == {r.session_id : r \in stops} \cup PublishedTokens("shutdown", "stop")
SupersededTokens ==
    {sid \in Tokens : \E i, j \in 1..Len(published) :
        /\ i < j
        /\ published[i].session_id = sid
        /\ published[j].cmd = "new_run"
        /\ published[j].device = published[i].device}
TimerShutdowns(sid) ==
    {i \in 1..Len(published) : /\ published[i].cmd = "shutdown"
                               /\ published[i].by = "timer"
                               /\ published[i].session_id = sid}
C8_DeadlineEndsRunningSession ==
    /\ \A sid \in Tokens :
          RunningAs(sid) ~>
              \/ TimerShutdowns(sid) # {} /\ ~RunningAs(sid)
              \/ sid \in StoppedTokens
              \/ sid \in SupersededTokens
    /\ [](\A sid \in Tokens :
            /\ Cardinality(TimerShutdowns(sid)) <= 1
            /\ TimerShutdowns(sid) # {}
                 => \A d \in Devices : ~IsCurrent(d, sid))

\* C8 witness: a RUNNING session with its deadline thread asleep and no stop
\* under way.
C8_Witness ==
    /\ IsRunning("dev1")
    /\ stops = {}
    /\ \E t \in timers : /\ t.session_id = sessions["dev1"].session_id
                         /\ t.pc = "sleeping"

\* C9: a stop that finds a session, PENDING or RUNNING, removes the entry
\* and hands exactly one shutdown for the device to the publisher; an absent
\* entry stays absent until a start request stores a new one.
C9_StopRemovesAndPublishesOnce ==
    [][\A d \in SessionDevices :
          /\ StopRemove(d)
               => /\ sessions'[d] = NoSession
                  /\ stops' \ stops = {[device |-> d, session_id |-> sessions[d].session_id]}
          /\ \A r \in stops :
               (r.device = d /\ r \notin stops')
                   => /\ Len(published') = Len(published) + 1
                      /\ published'[Len(published')].cmd = "shutdown"
                      /\ published'[Len(published')].device = d
          /\ StopRemove(d) => ~Status(d)'.active
          /\ (~Status(d).active /\ Status(d)'.active)
               => (lock = "start" /\ start_req.device = d)]_vars

\* C9 witness: a RUNNING session was stopped: its shutdown is published by
\* stop, its deadline thread exists, and the slot is empty.
C9_Witness ==
    /\ sessions["dev1"] = NoSession
    /\ stops = {}
    /\ \E t \in timers : t.session_id \in PublishedTokens("shutdown", "stop")

(***************************************************************************)
(* Properties of the ingestion bridge, continued.                          *)
(***************************************************************************)
\* C11: a message whose payload is no valid JSON creates no Sample, upserts
\* no Device, touches no Run and raises nothing; the store and the control
\* cache, which are all that the handling of a later message reads, are as
\* they were before it.
C11_MalformedJsonIsIgnored ==
    [][last_msg' = "badjson"
          => (UNCHANGED <<samples, devices, runs, last_controls>> /\ bridge_raised' = FALSE)]_vars

\* C11 witness: a malformed message arrived after a sample, a device row, a
\* run and a control payload were stored, and all of them are in place.
C11_Witness ==
    /\ last_msg = "badjson"
    /\ bridge_raised = FALSE
    /\ Len(samples) >= 1
    /\ Len(runs) >= 1
    /\ devices["dev1"] # NoRow
    /\ last_controls["dev1"] # NoCtl

\* the enrichment fields a payload carries
Carried(p) == {k \in ControlKeys : Has(p, k)}

\* the meta document of the Run row (d, base) in rs, {} when there is none
RunMetaOf(rs, d, base) ==
    LET hit == RunIndex(rs, d, base)
    IN  IF hit = {} THEN EmptyRunMeta
        ELSE LET r == rs[CHOOSE i \in hit : TRUE]
             IN  IF r.meta = Null THEN EmptyRunMeta ELSE r.meta

\* telemetry that announces no base and carries late fields
LatePayloads ==
    { [Good EXCEPT !["threshold"] = JInt(7)],
      [Good EXCEPT !["baseline"] = JInt(9)],
      [Good EXCEPT !["is_leader"] = JBool(FALSE), !["threshold"] = JInt(7)] }

\* C12: from every reachable store in which the device's current_run.base_ts
\* exists, a stored message that announces no base and carries some of
\* baseline, is_leader, reset_threshold, threshold leaves the Run row of
\* (device, current base) with each carried field equal to the payload's
\* value and every other field of its meta as before.
C12_LateFieldsAreMerged ==
    \A d \in Devices, p \in LatePayloads :
        LET base == CurrentBase(LoadMeta(devices, d))
            old == RunMetaOf(runs, d, base)
            r == Telemetry(Store, last_controls[d], d, p, Receipt)
        IN  (/\ AnnouncedBase(p) = NoneTs
             /\ Carried(p) # {}
             /\ base # NoneTs
             /\ r.outcome = "stored")
                => /\ RunIndex(r.runs, d, base) # {}
                   /\ \A k \in RunMetaKeys :
                         RunMetaOf(r.runs, d, base)[k] =
                             IF k \in Carried(p) THEN Get(p, k) ELSE old[k]

\* C13: when a store statement of the late-field merge fails, the Sample
\* insert and the Device upsert of the same message are committed and
\* on_message returns normally.
C13_MergeFailureKeepsPrimaryWrites ==
    [][\A d \in Devices, p \in BridgePayloads, e \in BOOLEAN :
          OnMergeFailure(d, p, e)
              => /\ Len(samples') = Len(samples) + 1
                 /\ samples'[Len(samples')].device_id = d
                 /\ devices'[d] # NoRow
                 /\ devices'[d].last_seen = samples'[Len(samples')].ts
                 /\ bridge_raised' = FALSE]_vars

\* run announcements that carry enrichment fields of their own
EnrichedAnnouncements ==
    { [Announce(BaseA) EXCEPT !["threshold"] = JInt(7)],
      [Announce(BaseA) EXCEPT !["is_leader"] = JBool(FALSE)],
      [Announce(BaseA) EXCEPT !["threshold"] = JInt(0)],
      [Announce(BaseA) EXCEPT !["baseline"] = JInt(0)] }

\* C14: from every reachable store and control cache, a stored run
\* announcement that carries baseline, is_leader, reset_threshold or
\* threshold itself leaves the payload's value, 0 and false included, in
\* the Run's meta and in meta.current_run.
C14_PayloadValueWinsOverCache ==
    \A d \in Devices, p \in EnrichedAnnouncements :
        LET r == Telemetry(Store, last_controls[d], d, p, Receipt)
        IN  (AnnouncedBase(p) # NoneTs /\ r.outcome = "stored")
                => \A k \in Carried(p) :
                      /\ RunMetaOf(r.runs, d, AnnouncedBase(p))[k] = Get(p, k)
                      /\ LoadMeta(r.devices, d).current_run[k] = Get(p, k)

\* the value of field k a cached control object c gives a run: line 211
\* stores is_leader as its truth value, the other three as they are
CachedValue(c, k) == IF k = "is_leader" THEN BoolOrNone(c[k]) ELSE c[k]

\* C15: when the control cache of device d holds an object with a value for
\* baseline, is_leader, reset_threshold or threshold, a telemetry message
\* of d that announces a base without carrying that field leaves the Run
\* row of that base with the cached value in its meta; and the cache of d
\* is the payload of the most recent control message of d.
C15_CachedControlEnrichesRun ==
    /\ [](\A d \in Devices, p \in BridgePayloads \ {NotObject}, k \in ControlKeys :
            LET c == last_controls[d]
                r == Telemetry(Store, c, d, p, Receipt)
            IN  (/\ c \notin {NoCtl, NotObject}
                 /\ c[k] \notin {Absent, Null}
                 /\ AnnouncedBase(p) # NoneTs
                 /\ ~Has(p, k))
                    => /\ r.outcome # "raised"
                       /\ RunMetaOf(r.runs, d, AnnouncedBase(p))[k] = CachedValue(c, k))
    /\ [][/\ \A d \in Devices, p \in ControlPayloads :
               OnControl(d, p) => last_controls'[d] = p
          /\ last_controls' # last_controls
               => \E d \in Devices, p \in ControlPayloads : OnControl(d, p)]_vars

\* C15 witness: dev1 announced two bases under two different cached control
\* payloads; each Run row has the threshold that was cached when its base
\* was announced, the later one that of the most recent control message.
C15_Witness ==
    /\ last_controls["dev1"] \notin {NoCtl, NotObject}
    /\ last_controls["dev1"]["threshold"] = JInt(1024)
    /\ RunMetaOf(runs, "dev1", BaseA)["threshold"] = JInt(2048)
    /\ RunMetaOf(runs, "dev1", BaseB)["threshold"] = JInt(1024)
    /\ RunMetaOf(runs, "dev1", BaseB)["is_leader"] = JBool(TRUE)

(***************************************************************************)
(* Properties of the sample timestamp and dt.                              *)
(***************************************************************************)
\* the Sample a stored telemetry message inserted
Inserted(r) == r.samples[Len(r.samples)]

\* the run base a message of d with payload p finds in meta.current_run:
\* the one it announces itself, else the one an earlier message left
BaseFor(d, p) ==
    IF AnnouncedBase(p) # NoneTs THEN AnnouncedBase(p)
    ELSE CurrentBase(LoadMeta(devices, d))

\* C16: from every reachable store, a stored message with no usable
\* absolute timestamp gets ts = base_ts + dt ms when dt is an integer and
\* meta.current_run.base_ts exists (left by an earlier message or announced
\* by this one), and the receipt time when the base or dt is missing.
C16_TimestampSynthesis ==
    \A d \in Devices, p \in TsPayloads :
        LET r == Telemetry(Store, last_controls[d], d, p, Receipt)
        IN  (r.outcome = "stored" /\ AbsTs(p) = NoneTs)
                => Inserted(r).ts = IF DtOk(p) /\ BaseFor(d, p) # NoneTs
                                    THEN BaseFor(d, p) + DtMs(p)
                                    ELSE Receipt

\* C16 witness: dev1 announced BaseA in a message without dt, stored at the
\* receipt time, then sent dt = 500 without a timestamp, stored at
\* BaseA + 500 ms.
C16_Witness ==
    /\ Len(samples) = 2
    /\ samples[1].device_id = "dev1" /\ samples[1].ts = Receipt /\ samples[1].dt = 0
    /\ samples[2].device_id = "dev1" /\ samples[2].ts = BaseA + 500 /\ samples[2].dt = 500
    /\ CurrentBase(LoadMeta(devices, "dev1")) = BaseA

TsKeys == {"timestamp", "ts", "end_time"}
BaseKeys == {"run_base_ts", "run_start_ts", "run_start"}

\* the payload without the keys ks
Without(p, ks) == [k \in PayloadKeys |-> IF k \in ks THEN Absent ELSE p[k]]

\* instants before 2000-01-01 as ISO text, epoch seconds and digit string
OldValues == {JIso(Old), JInt(5), JDigits(5)}

\* C17: a timestamp before 2000-01-01 is treated as absent.  From every
\* reachable store, a message that carries one as its sample timestamp is
\* handled exactly as the same message without it; a message that carries
\* one as its run base is handled exactly as the same message without it:
\* no Run row is created or changed and meta.current_run stays as it was.
C17_PreFloorTimestampIsAbsent ==
    \A d \in Devices, v \in OldValues :
        /\ \A q \in {Without(p, TsKeys) : p \in TsPayloads}, k \in TsKeys :
              Telemetry(Store, last_controls[d], d, [q EXCEPT ![k] = v], Receipt)
                  = Telemetry(Store, last_controls[d], d, q, Receipt)
        /\ \A q \in {Without(p, BaseKeys) : p \in TsPayloads}, k \in BaseKeys :
              LET r == Telemetry(Store, last_controls[d], d, [q EXCEPT ![k] = v], Receipt)
              IN  /\ r = Telemetry(Store, last_controls[d], d, q, Receipt)
                  /\ r.runs = runs
                  /\ r.outcome = "stored"
                  /\ LoadMeta(r.devices, d).current_run = LoadMeta(devices, d).current_run

\* C17 witness: after dev1 announced BaseA, a message stamped and announced
\* before the floor with dt = 500 was stored at BaseA + 500 ms; the only
\* Run row is that of BaseA and the pointer is still BaseA.
C17_Witness ==
    /\ Len(samples) = 2
    /\ samples[2].device_id = "dev1"
    /\ samples[2].ts = BaseA + 500
    /\ Telemetry([samples |-> SubSeq(samples, 1, 1), devices |-> devices, runs |-> runs],
                 last_controls["dev1"], "dev1", StalePayload, Receipt).samples = samples
    /\ Len(runs) = 1
    /\ runs[1].base_ts = BaseA
    /\ CurrentBase(LoadMeta(devices, "dev1")) = BaseA

\* the keys of the sample timestamp and of the run base, by priority
TsChain == <<"timestamp", "ts", "end_time">>
BaseChain == <<"run_base_ts", "run_start_ts", "run_start">>

\* the payload without the keys of the chain that come after its first key
\* with a non-null value
DropLower(p, chain) ==
    LET set == {i \in 1..Len(chain) : Get(p, chain[i]) # Null}
    IN  IF set = {} THEN p
        ELSE LET first == CHOOSE i \in set : \A j \in set : i <= j
             IN  Without(p, {chain[j] : j \in (first + 1)..Len(chain)})

\* a higher-priority key that is below the floor, unparseable, zero or
\* empty, with a valid value under a lower-priority key
ShadowedPayloads ==
    { [Good EXCEPT !["timestamp"] = JIso(Old), !["ts"] = JIso(Early)],
      [Good EXCEPT !["timestamp"] = JStr("soon"), !["ts"] = JIso(Early)],
      [Good EXCEPT !["run_base_ts"] = JIso(Old), !["run_start_ts"] = JIso(BaseA)],
      [Good EXCEPT !["run_base_ts"] = JInt(0), !["run_start"] = JIso(BaseA)] }
FallThroughPayloads ==
    { [Good EXCEPT !["timestamp"] = JInt(0), !["ts"] = JIso(Early)],
      [Good EXCEPT !["ts"] = JStr(""), !["end_time"] = JIso(Early)],
      [Good EXCEPT !["run_base_ts"] = JStr("soon"), !["run_start_ts"] = JIso(BaseA)] }

\* C18: the sample timestamp comes from the first non-null of timestamp,
\* ts, end_time and the run base from the first non-null of run_base_ts,
\* run_start_ts, run_start: a message is handled exactly as the same
\* message without the keys that follow the first non-null one, whatever
\* that first value is.
C18_FirstNonNullKeyDecides ==
    \A d \in Devices, p \in ShadowedPayloads \cup FallThroughPayloads :
        Telemetry(Store, last_controls[d], d, p, Receipt)
            = Telemetry(Store, last_controls[d], d,
                        DropLower(DropLower(p, TsChain), BaseChain), Receipt)

\* payloads whose device_number is an integer, a digit string, a boolean
NumberedPayloads ==
    TsPayloads \cup { [StampedPayload EXCEPT !["device_number"] = JDigits(4)],
                      [Good EXCEPT !["device_number"] = JBool(TRUE)] }

\* C19: from every reachable store, a stored telemetry message of d leaves
\* the Device row of d with last_seen equal to the ts of the Sample it
\* inserted, online true and device_number that of the message; when the
\* payload's timestamp is an instant at or after 2000-01-01, that ts is the
\* payload's timestamp.
C19_DeviceRowFollowsSample ==
    \A d \in Devices, p \in NumberedPayloads :
        LET r == Telemetry(Store, last_controls[d], d, p, Receipt)
        IN  r.outcome = "stored"
                => /\ r.devices[d] # NoRow
                   /\ Inserted(r).device_id = d
                   /\ r.devices[d].last_seen = Inserted(r).ts
                   /\ r.devices[d].online = TRUE
                   /\ r.devices[d].device_number = JInt(to_int(p["device_number"]))
                   /\ Inserted(r).device_number = to_int(p["device_number"])
                   /\ \A t \in MIN_VALID..Receipt :
                         p["timestamp"] = JIso(t) => Inserted(r).ts = t

\* C19 witness: dev1 sent one sample, stamped Early: its row has last_seen
\* = Early, the sample's ts, and the sample's device_number; dev2, seen
\* only through a status message, has last_seen at the receipt time.
C19_Witness ==
    /\ Len(samples) = 1
    /\ samples[1].device_id = "dev1"
    /\ samples[1].ts = Early
    /\ devices["dev1"] # NoRow
    /\ devices["dev1"].last_seen = Early
    /\ devices["dev1"].online = TRUE
    /\ devices["dev1"].device_number = JInt(samples[1].device_number)
    /\ devices["dev2"] # NoRow
    /\ devices["dev2"].last_seen = Receipt

\* C20: from every reachable store, a stored telemetry message whose
\* payload has no dt field is stored with dt = 0 and leaves the device's
\* rate metrics (inst_rate_hz, ema_rate_hz) as they were.
C20_MissingDtStoresZero ==
    \A d \in Devices, p \in NumberedPayloads :
        LET r == Telemetry(Store, last_controls[d], d, p, Receipt)
        IN  (r.outcome = "stored" /\ ~Has(p, "dt"))
                => /\ Inserted(r).dt = 0
                   /\ LoadMeta(r.devices, d).metrics = LoadMeta(devices, d).metrics

\* C20 witness: dev1 sent dt = 500, which set its rate metrics, then a
\* sample stored with dt = 0 at the receipt time; the metrics are those of
\* the first sample.
C20_Witness ==
    /\ Len(samples) = 2
    /\ samples[1].device_id = "dev1" /\ samples[1].dt = 500
    /\ samples[2].device_id = "dev1" /\ samples[2].dt = 0 /\ samples[2].ts = Receipt
    /\ LoadMeta(devices, "dev1").metrics = UpdateMetrics(Absent, 500)

(***************************************************************************)
(* Properties of the three topics.                                         *)
(***************************************************************************)
\* every telemetry payload the bridge specification sends that is an object
SentPayloads == (BridgePayloads \cup OtherPayloads) \ {NotObject}

\* C21: every telemetry message that is valid JSON with all required
\* fields coercible adds exactly one Sample row; a step adds a row only by
\* handling such a message (status and control messages add none); and no
\* step modifies or deletes an existing row.
C21_OneSamplePerAcceptedMessage ==
    [][/\ \A d \in Devices, p \in SentPayloads :
             (RequiredOk(p) /\ OnTelemetry(d, p, Receipt))
                 => Len(samples') = Len(samples) + 1
       /\ Len(samples') >= Len(samples)
       /\ \A i \in 1..Len(samples) : Len(samples') >= i => samples'[i] = samples[i]
       /\ Len(samples') > Len(samples)
             => \E d \in Devices, p \in SentPayloads :
                    RequiredOk(p) /\ OnTelemetry(d, p, Receipt)]_vars

\* C22: a status message of device d leaves d's Device row with last_seen
\* the receipt time and online true, and changes nothing else: no other
\* Device row, no Sample, no Run, and for a device that had a row neither
\* its meta nor its device_number.
C22_StatusTouchesOnlyLastSeen ==
    [][\A d \in Devices :
          OnStatus(d, Receipt)
              => /\ devices'[d] # NoRow
                 /\ devices'[d].last_seen = Receipt
                 /\ devices'[d].online = TRUE
                 /\ \A e \in Devices \ {d} : devices'[e] = devices[e]
                 /\ UNCHANGED <<samples, runs>>
                 /\ devices[d] # NoRow
                      => /\ devices'[d].meta = devices[d].meta
                         /\ devices'[d].device_number = devices[d].device_number]_vars

\* C22 witness: dev1 has sent samples, none stamped with the receipt time,
\* and announced a run; a status message then moved last_seen to the
\* receipt time and the row still has its meta and device_number.
C22_Witness ==
    /\ devices["dev1"] # NoRow
    /\ devices["dev1"].last_seen = Receipt
    /\ devices["dev1"].device_number = JInt(3)
    /\ devices["dev1"].meta # Null
    /\ CurrentBase(LoadMeta(devices, "dev1")) = BaseB
    /\ \E i \in 1..Len(samples) : samples[i].device_id = "dev1"
    /\ \A i \in 1..Len(samples) :
          samples[i].device_id = "dev1" => samples[i].ts # Receipt

\* C23: a control message on control/<d>/set leaves the payload it carried
\* as the cache entry of d, whatever was cached before, leaves the entries
\* of the other devices as they were, and changes no row of devices,
\* samples or runs.
C23_ControlReplacesCacheOnly ==
    [][\A d \in Devices, p \in ControlPayloads \cup ArrayControls :
          OnControl(d, p)
              => /\ last_controls'[d] = p
                 /\ \A e \in Devices \ {d} : last_controls'[e] = last_controls[e]
                 /\ UNCHANGED <<samples, devices, runs>>]_vars

(***************************************************************************)
(* Properties of the session controller, continued.                        *)
(***************************************************************************)
\* is a Run of d stored whose base is newer than last (any Run when last is
\* null): the test of line 57 over the whole table
NewerRun(d, last) ==
    \E i \in RunIndexOf(d) : last = NoneTs \/ runs[i].base_ts > last

\* the session in d's slot has seen no newer Run so far; Run rows are never
\* deleted, so none was stored at any earlier moment either
Unconfirmed(d) ==
    IF sessions[d] = NoSession THEN FALSE
    ELSE ~NewerRun(d, sessions[d].last_run_base_ts)

\* C24: as long as no Run of the device with a base newer than the
\* session's last_run_base_ts is stored, the session is PENDING, no
\* stop-after-delay thread of its token exists, no shutdown of its token was
\* published by such a thread, and its entry changes only by a stop request
\* or a start request for the device.
C24_UnconfirmedSessionStaysPending ==
    /\ [](\A d \in Devices :
            Unconfirmed(d)
                => /\ sessions[d].state = "pending"
                   /\ sessions[d].timer = NoThread
                   /\ sessions[d].run_base_ts = NoneTs
                   /\ \A t \in timers : t.session_id # sessions[d].session_id
                   /\ sessions[d].session_id \notin PublishedTokens("shutdown", "timer"))
    /\ [][\A d \in SessionDevices :
            (Unconfirmed(d) /\ sessions'[d] # sessions[d])
                => \/ StopRemove(d)
                   \/ \E v \in Durations : StartBegin(d, v)]_vars

\* C24 witness: a session was started when a run of the device was stored;
\* since then the device has sent a sample but announced no newer run, the
\* await thread has polled at least once, and the session is PENDING.
C24_Witness ==
    /\ IsPending("dev1")
    /\ Unconfirmed("dev1")
    /\ sessions["dev1"].last_run_base_ts # NoneTs
    /\ LastSampleId("dev1") > sessions["dev1"].start_after_id
    /\ \E w \in waiters : /\ w.session_id = sessions["dev1"].session_id
                          /\ w.pc = "check"
                          /\ w.last_run_base_ts = sessions["dev1"].last_run_base_ts

\* C25: a stop request for a device without a session is answered 404,
\* hands no command to the publisher and leaves the session map as it is;
\* and it cannot take the path that removes an entry.
C25_StopWithoutSessionIsNotFound ==
    /\ [](\A d \in Devices : sessions[d] = NoSession => ~ENABLED StopRemove(d))
    /\ [][\A d \in Devices :
            StopMissing(d)
                => /\ http_code' = 404
                   /\ UNCHANGED <<sessions, published, stops, waiters, timers>>]_vars

\* C25 witness: a session was started and stopped, and a second stop for
\* the device was answered 404: one new_run and one shutdown are published.
C25_Witness ==
    /\ http_code = 404
    /\ sessions["dev1"] = NoSession
    /\ stops = {}
    /\ Len(published) = 2
    /\ published[2].cmd = "shutdown"

\* C26: a start request whose duration_s is missing, is no integer, is
\* <= 0 or is > 604800 is answered 400 and has no effect: it does not enter
\* the lock, the session map, the published commands and the background
\* threads are as before.
C26_InvalidDurationIsRejected ==
    [][\A d \in Devices, v \in RequestDurations :
          LET invalid == \/ ~IsInt(v)
                         \/ IsInt(v) /\ (v.int <= 0 \/ v.int > MAX_DURATION)
          IN  /\ invalid => ~StartBegin(d, v)
              /\ (invalid /\ StartReject(d, v))
                    => /\ http_code' = 400
                       /\ UNCHANGED <<sessions, lock, start_req, published, waiters,
                                      timers>>]_vars

\* what is left of a session at a query time, in tenths of a second, not
\* below zero
LeftTenths(d, now) ==
    IF sessions[d].stop_time * 10 - now > 0 THEN sessions[d].stop_time * 10 - now ELSE 0

\* C27 as stated: the answer has active exactly when the map holds a
\* session, pending exactly when its state is PENDING, the duration of the
\* entry; for a RUNNING session remaining_s = max(0, stop_time - now), never
\* negative and never above duration_s; for a PENDING session remaining_s
\* and stop_time are null.
C27_StatusReportsRemaining ==
    \A d \in Devices, now \in QueryTimes :
        LET a == get_session(d, now)
        IN  /\ a.active = (sessions[d] # NoSession)
            /\ a.active => /\ a.pending = (sessions[d].state = "pending")
                           /\ a.duration_s = sessions[d].duration_s
            /\ IsRunning(d) => /\ a.remaining_s * 10 = LeftTenths(d, now)
                               /\ a.remaining_s >= 0
                               /\ a.remaining_s <= a.duration_s
            /\ IsPending(d) => /\ a.remaining_s = NoTime
                               /\ a.stop_time = NoTime

\* C27 amended: the same with remaining_s the whole seconds of
\* max(0, stop_time - now): remaining_s <= max(0, stop_time - now) <
\* remaining_s + 1.
C27_StatusReportsWholeSeconds ==
    \A d \in Devices, now \in QueryTimes :
        LET a == get_session(d, now)
        IN  /\ a.active = (sessions[d] # NoSession)
            /\ a.active => /\ a.pending = (sessions[d].state = "pending")
                           /\ a.duration_s = sessions[d].duration_s
            /\ IsRunning(d) => /\ a.remaining_s * 10 <= LeftTenths(d, now)
                               /\ LeftTenths(d, now) < (a.remaining_s + 1) * 10
                               /\ a.remaining_s >= 0
                               /\ a.remaining_s <= a.duration_s
                               /\ a.stop_time = sessions[d].start_time + a.duration_s
            /\ IsPending(d) => /\ a.remaining_s = NoTime
                               /\ a.stop_time = NoTime

\* C27 witness: a RUNNING session of 5 s, queried 1.5 s after its start
\* (3 whole seconds left of 3.5) and 2 s after its deadline (0 left).
C27_Witness ==
    /\ IsRunning("dev1")
    /\ sessions["dev1"].duration_s = 5
    /\ get_session("dev1", 10015).remaining_s = 3
    /\ get_session("dev1", 10120).remaining_s = 0

\* C30: a control request whose threshold or reset_threshold is not an
\* integer in [0, 4095] is answered 400 and nothing is published; a request
\* that is answered 200 has published exactly one message, for its device,
\* in which the two fields, where present, are integers.
C30_ControlRequestIsValidated ==
    [][\A b \in ControlBodies :
          LET valid(v) == (IsInt(v) /\ v.int \in 0..THRESHOLD_MAX)
                              \/ (IsDigits(v) /\ v.digits \in 0..THRESHOLD_MAX)
              invalid == \E k \in {"threshold", "reset_threshold"} :
                             Has(b, k) /\ ~valid(b[k])
          IN  SendControl("dev1", b)
                  => /\ invalid => (http_code' = 400 /\ published' = published)
                     /\ http_code' = 200
                          => /\ Len(published') = Len(published) + 1
                             /\ published'[Len(published')].device = "dev1"
                             /\ \A k \in {"threshold", "reset_threshold"} :
                                   Has(b, k)
                                       => IsInt(published'[Len(published')].payload[k])]_vars

\* the threshold the bridge has recorded for the device: current_run.threshold
\* of the stored meta document, Null when there is none
RecordedThreshold(d) ==
    LET cr == LoadMeta(devices, d).current_run
    IN  IF cr = Absent THEN Null
        ELSE IF cr["threshold"] = Absent THEN Null ELSE cr["threshold"]

\* C31: a control request with reset_threshold R is answered 400 and
\* publishes nothing whenever R >= the effective threshold: the request's
\* own threshold if present, else the threshold the bridge has recorded in
\* the device's metadata (current_run.threshold).
C31_ResetBelowEffectiveThreshold ==
    [][\A b \in ControlBodies :
          LET eff == IF Has(b, "threshold") THEN b["threshold"]
                     ELSE RecordedThreshold("dev1")
          IN  /\ SendControl("dev1", b)
              /\ Has(b, "reset_threshold")
              /\ IsInt(b["reset_threshold"])
              /\ IsInt(eff)
              /\ b["reset_threshold"].int >= eff.int
              => /\ http_code' = 400
                 /\ published' = published]_vars

(***************************************************************************)
(* Properties of parse_ts.                                                 *)
(***************************************************************************)
\* epoch values as numbers and digit strings: seconds up to the last one
\* datetime accepts and beyond, the cutoff and its neighbours,
\* milliseconds, an integer beyond the float range, and a superscript two
EpochValues ==
    { JInt(0), JInt(10), JDigits(10), JInt(MAX_EPOCH_S), JInt(MAX_EPOCH_S + 1),
      JInt(MS_CUTOFF - 1), JInt(MS_CUTOFF), JDigits(MS_CUTOFF), JInt(MS_CUTOFF + 1),
      JDigits(MS_CUTOFF + 1), JInt(12000), JFloat(105), JInt(MAX_FLOAT + 1),
      SuperDigits }

\* values that are no epoch value and no date
Unconvertible == { Null, Absent, JStr("soon"), JStr(""), NotObject }

\* the number an epoch value stands for, in tenths
EpochTenths(v) ==
    CASE IsInt(v) -> v.int * 10
      [] IsDigits(v) -> v.digits * 10
      [] IsFloat(v) -> v.tenths
      [] OTHER -> 0

\* C29: parse_ts reads an epoch value v as milliseconds exactly when
\* v > 1e12 and as seconds otherwise, v = 1e12 included; for a missing
\* value and for every value it cannot convert it returns None: it raises
\* nothing and a telemetry message carrying such a value as its timestamp
\* is handled to its end and stored.
C29_EpochUnitsAndNoError ==
    /\ \A v \in EpochValues :
          LET k == EpochTenths(v)
              ms == IF k > MS_CUTOFF * 10 THEN k \div 10 ELSE k * 100
          IN  /\ parse_ts_error(v) = "none"
              /\ parse_ts(v) = (IF ms <= MAX_EPOCH_S * 1000 THEN ms ELSE NoneTs)
    /\ \A v \in Unconvertible :
          parse_ts_error(v) = "none" /\ parse_ts(v) = NoneTs
    /\ \A d \in Devices, v \in (EpochValues \cup Unconvertible) \ {NotObject} :
          Telemetry(Store, last_controls[d], d, [Good EXCEPT !["timestamp"] = v],
                    Receipt).outcome = "stored"

(***************************************************************************)
(* Properties of the rate metrics.  Rates are in thousandths of a hertz:   *)
(* 10.0 Hz is 10000.                                                       *)
(***************************************************************************)
\* the stored ema_rate_hz of dev1, once a sample has seeded it
Ema == LoadMeta(devices, "dev1").metrics.ema_rate_hz

\* the distance of a rate from 10.0 Hz
Off(e) == IF e >= 10000 THEN e - 10000 ELSE 10000 - e

\* the first sample seeds ema = round(1000/dt, 3); every later one leaves
\* round(0.2 * 10 + 0.8 * prev, 3)
EmaUpdateRule ==
    /\ Len(samples) = 0 /\ Len(samples') = 1
         => \E dt \in SeedDts :
               /\ samples'[1].dt = dt
               /\ 2 * dt * Ema' - 2000000 <= dt
               /\ 2000000 - 2 * dt * Ema' <= dt
    /\ Len(samples) > 0 /\ Len(samples') = Len(samples) + 1
         => /\ 10 * Ema' - (8 * Ema + 20000) <= 5
            /\ (8 * Ema + 20000) - 10 * Ema' <= 5

\* C28 as stated: under a stream of dt = 100 ms samples the stored
\* ema_rate_hz moves strictly closer to 10.0 with every sample until it is
\* within 0.001 of 10.0, is within 0.001 after 20 samples of the stream,
\* and each update follows the update rule.
C28_EmaConvergesIn20 ==
    /\ [](Len(samples) >= 21 => Off(Ema) <= 1)
    /\ [][/\ EmaUpdateRule
          /\ (Len(samples) > 0 /\ Len(samples') > Len(samples) /\ Off(Ema) > 1)
                => Off(Ema') < Off(Ema)]_vars

\* C28 amended: the stored ema_rate_hz moves strictly closer to 10.0 with
\* every sample until it is within 0.002 of 10.0 and then stays within
\* 0.002; every sample leaves at most four fifths of the distance plus the
\* rounding (0.0005); so it is within 0.002 after 20 samples of the stream
\* when the stream found it within 0.101 of 10.0, and after 50 samples
\* when it found it within 90 Hz; each update follows the update rule.
C28_EmaConvergesGeometrically ==
    /\ [](/\ (Len(samples) >= 21 /\ samples[1].dt \in {99, 100, 101}) => Off(Ema) <= 2
          /\ Len(samples) >= 51 => Off(Ema) <= 2)
    /\ [][/\ EmaUpdateRule
          /\ (Len(samples) > 0 /\ Len(samples') > Len(samples))
                => /\ Off(Ema) > 2 => Off(Ema') < Off(Ema)
                   /\ Off(Ema) <= 2 => Off(Ema') <= 2
                   /\ 10 * Off(Ema') <= 8 * Off(Ema) + 5]_vars

\* C28 witness: a stream that found the EMA at 100 Hz has brought it to
\* 10.002 Hz, where it stays.
C28_Witness ==
    /\ Len(samples) = MaxStream
    /\ samples[1].dt = 10
    /\ samples[2].dt = StreamDt
    /\ Ema = 10002

(***************************************************************************)
(* Properties of the threads of the session controller.                    *)
(***************************************************************************)
\* a step of the await thread w, whichever statement it is at
WaiterStep(w) ==
    \/ WaiterCheck(w)
    \/ \E ok \in BOOLEAN : WaiterQueryRun(w, ok)
    \/ WaiterSetRun(w)
    \/ \E ok \in BOOLEAN, now \in StartTimes : WaiterQuerySample(w, ok, now)
    \/ WaiterSetRunning(w)

\* C32: an await thread whose token no longer matches the device's map
\* entry has no side effects from then on: its steps write nothing into
\* the session map, publish no command and arm no deadline timer, and it
\* leaves at its next check of the map at the top of its loop.
C32_StaleWaiterHasNoEffect ==
    [][\A w \in waiters :
          ~IsCurrent(w.device, w.session_id)
              => /\ WaiterStep(w) => /\ sessions' = sessions
                                     /\ published' = published
                                     /\ timers' = timers
                 /\ WaiterCheck(w) => w \notin waiters']_vars

\* C33: no thread holds the session-map mutex while it publishes: a step
\* that publishes a command is taken with the mutex free, and is not the
\* step of the stop-after-delay thread, which runs inside the mutex.
C33_NoPublishUnderMutex ==
    [][published' # published
          => /\ lock = "free"
             /\ ~\E t \in timers : TimerFire(t)]_vars

\* the positions in the log of the shutdowns of session sid that follow the
\* new_run of a later session of the same device
StrayShutdowns(sid) ==
    {i \in 1..Len(published) :
        /\ published[i].cmd = "shutdown"
        /\ published[i].session_id = sid
        /\ \E j \in 1..(i - 1) :
              /\ published[j].cmd = "new_run"
              /\ published[j].device = published[i].device
              /\ published[j].session_id > sid}

\* C34: a stop that runs concurrently with a start can publish its
\* shutdown after the new session's new_run, with the new session left in
\* the map; at most one such stray shutdown is published per stopped or
\* superseded session.
C34_AtMostOneStrayShutdown ==
    \A sid \in Tokens : Cardinality(StrayShutdowns(sid)) <= 1

\* the stop of session 1 published its shutdown after the new_run of
\* session 2, which holds the slot
C34_Witness ==
    /\ StrayShutdowns(1) # {}
    /\ \A i \in StrayShutdowns(1) : published[i].by = "stop"
    /\ IsCurrent("dev1", 2)

(***************************************************************************)
(* Properties of the run announcement.                                     *)
(***************************************************************************)
\* run announcements of the bridge specification and those that carry
\* enrichment fields of their own
Announcements ==
    (BridgePayloads \ {NotObject}) \cup EnrichedAnnouncements \cup AnnouncePayloads

\* C35: after a stored telemetry message that announces a run base, the
\* Run row of (device, base) and Device.meta.current_run hold the same
\* baseline, is_leader, reset_threshold and threshold, whatever the payload
\* and the cached control values.
C35_RunRowMirrorsCurrentRun ==
    \A d \in Devices, p \in Announcements :
        LET r == Telemetry(Store, last_controls[d], d, p, Receipt)
        IN  (AnnouncedBase(p) # NoneTs /\ r.outcome = "stored")
                => \A k \in ControlKeys :
                      RunMetaOf(r.runs, d, AnnouncedBase(p))[k] =
                          LoadMeta(r.devices, d).current_run[k]

\* the Run row of (d, base) in rs
RunRowOf(rs, d, base) == rs[CHOOSE i \in RunIndex(rs, d, base) : TRUE]

\* the store with the run_key and meta of the Run row of (d, base) erased
Scrubbed(st, d, base) ==
    [st EXCEPT !.runs =
        [i \in 1..Len(st.runs) |->
            IF i \in RunIndex(st.runs, d, base)
            THEN [st.runs[i] EXCEPT !.run_key = Null, !.meta = Null]
            ELSE st.runs[i]]]

\* C39: a message that re-announces an existing (device_id, base_ts) keeps
\* the Run row's id, device_id and base_ts and adds no row; run_key becomes
\* the message's run id, null when it carries none; and meta is built from
\* the message and the control cache alone: it is what the same message
\* leaves when the row had no run_key and no meta before, and a field that
\* neither the message nor the cache has is absent from it, also when an
\* earlier message had put it there.
C39_ReannouncementReplacesRunRow ==
    \A d \in Devices, p \in Announcements :
        \A base \in {AnnouncedBase(p)} :
            (base # NoneTs /\ RunIndex(runs, d, base) # {})
                => \A r \in {Telemetry(Store, last_controls[d], d, p, Receipt)},
                      fresh \in {Telemetry(Scrubbed(Store, d, base), last_controls[d],
                                          d, p, Receipt)} :
                      r.outcome # "raised"
                          => \A row \in {RunRowOf(r.runs, d, base)} :
                                /\ Len(r.runs) = Len(runs)
                                /\ RunIndex(r.runs, d, base) = RunIndex(runs, d, base)
                                /\ row.id = RunRowOf(runs, d, base).id
                                /\ row.run_key =
                                      (IF RunId(p) # Null THEN PyStr(RunId(p)) ELSE Null)
                                /\ row.meta = RunRowOf(fresh.runs, d, base).meta
                                /\ row.meta # Null
                                /\ \A k \in ControlKeys :
                                      (/\ ~Has(p, k)
                                       /\ CtlGet(CachedControl(last_controls[d]), k) = Null)
                                          => row.meta[k] = Absent

\* C39 witness: the Run row of (dev1, BaseA) has run_key "7" and the
\* baseline 9 that a later sample merged into it; re-announcing BaseA
\* without a run id leaves the same row with run_key null and no baseline.
C39_Witness ==
    /\ RunIndex(runs, "dev1", BaseA) # {}
    /\ RunRowOf(runs, "dev1", BaseA).run_key = JStr("7")
    /\ RunMetaOf(runs, "dev1", BaseA)["baseline"] = JInt(9)
    /\ \A r \in {Telemetry(Store, last_controls["dev1"], "dev1", Announce(BaseA), Receipt)} :
          /\ r.outcome = "stored"
          /\ Len(r.runs) = Len(runs)
          /\ RunRowOf(r.runs, "dev1", BaseA).run_key = Null
          /\ RunMetaOf(r.runs, "dev1", BaseA)["baseline"] = Absent

\* the fields of current_run next to base_ts
PointerFields == RunPointerKeys \ {"base_ts"}

\* does the message p or the cached control object c have a value for the
\* field k of current_run
Supplied(p, c, k) ==
    IF k = "id" THEN Has(p, "run_id") \/ Has(p, "run")
    ELSE Has(p, k) \/ CtlGet(c, k) # Null

ShutdownsOf(sid) ==
    {i \in 1..Len(published) :
        published[i].cmd = "shutdown" /\ published[i].session_id = sid}

\* C36: for each session token at most one shutdown is ever published; the
\* deadline thread and an explicit stop never both publish for one session.
C36_OneShutdownPerSession ==
    \A sid \in Tokens : Cardinality(ShutdownsOf(sid)) <= 1

\* C36 witness: session 1 was stopped and its shutdown published by the
\* stop; its deadline thread has woken since and published nothing.
C36_Witness ==
    /\ \E t \in timers : t.session_id = 1 /\ t.pc = "done"
    /\ \E i \in ShutdownsOf(1) : published[i].by = "stop"
    /\ Cardinality(ShutdownsOf(1)) = 1

\* C37: a shutdown published by a deadline thread never follows the
\* new_run of a later session of the same device: the thread checks the
\* token and publishes inside the mutex, and start replaces the entry and
\* publishes new_run inside the same mutex.
C37_DeadlineShutdownPrecedesNewRun ==
    \A sid \in Tokens :
        \A i \in StrayShutdowns(sid) : published[i].by # "timer"

\* C37 witness: the deadline thread of session 1 published its shutdown,
\* and the new_run of session 2 came after it.
C37_Witness ==
    \E i, j \in 1..Len(published) :
        /\ i < j
        /\ published[i].cmd = "shutdown"
        /\ published[i].by = "timer"
        /\ published[i].session_id = 1
        /\ published[j].cmd = "new_run"
        /\ published[j].device = published[i].device
        /\ published[j].session_id = 2

(***************************************************************************)
(* Properties of the session entry.                                        *)
(***************************************************************************)
\* the shape of one entry of the session map
EntryOk(e) ==
    /\ e.state \in {"pending", "running"}
    /\ e.state = "running"
          <=> (e.start_time # NoTime /\ e.stop_time # NoTime /\ e.timer # NoThread)
    /\ e.state = "pending"
          => (e.start_time = NoTime /\ e.stop_time = NoTime /\ e.timer = NoThread)
    /\ e.state = "running" => e.stop_time = e.start_time + e.duration_s

\* C38: every session entry is PENDING or RUNNING; it is RUNNING exactly
\* when start_time, stop_time and timer are set, and then stop_time ==
\* start_time + duration_s; as long as the entry stays in the map its
\* token, duration_s, start_after_id and last_run_base_ts do not change,
\* and run_base_ts changes at most once, from null to the base of a Run of
\* the device that is newer than last_run_base_ts.
C38_SessionEntryShape ==
    /\ [](\A d \in Devices : sessions[d] # NoSession => EntryOk(sessions[d]))
    /\ [][\A d \in Devices :
            (sessions[d] # NoSession /\ sessions'[d] # NoSession)
                => /\ sessions'[d].session_id = sessions[d].session_id
                   /\ sessions'[d].duration_s = sessions[d].duration_s
                   /\ sessions'[d].start_after_id = sessions[d].start_after_id
                   /\ sessions'[d].last_run_base_ts = sessions[d].last_run_base_ts
                   /\ sessions'[d].run_base_ts # sessions[d].run_base_ts
                         => /\ sessions[d].run_base_ts = NoneTs
                            /\ sessions'[d].run_base_ts
                                  \in {runs[i].base_ts : i \in RunIndexOf(d)}
                            /\ sessions[d].last_run_base_ts = NoneTs
                                  \/ sessions'[d].run_base_ts > sessions[d].last_run_base_ts]_vars

\* C38 witness: the session of dev1 was started when the device had a run
\* already, found a newer one and is RUNNING until start_time + duration_s.
C38_Witness ==
    /\ IsRunning("dev1")
    /\ sessions["dev1"].last_run_base_ts = BaseA
    /\ sessions["dev1"].run_base_ts = BaseB
    /\ sessions["dev1"].stop_time = sessions["dev1"].start_time + sessions["dev1"].duration_s
    /\ sessions["dev1"].timer # NoThread

====
